---- MODULE Spec2Model ----
(***************************************************************************)
(* Verification model of flutter_ocr_kit's native post-processing code:    *)
(*   - OcrEngine::CTCDecode            (src/src/ocr/ocr_engine.cpp)        *)
(*   - detectDocLayout post-processing (src/src/detect/doc_detector.cpp)   *)
(*   - OcrEngine::DBPostProcess        (src/src/ocr/ocr_engine.cpp)        *)
(*                                                                         *)
(* Floats are modelled in fixed point: a float x is the integer x * Milli. *)
(* Each component has its own specification (SpecCTC, SpecLayout, SpecDB); *)
(* the variables of the other components stay at their idle values.        *)
(***************************************************************************)
EXTENDS Integers, Sequences, FiniteSets, TLC

VARIABLES
    \* ---- OcrEngine state read by CTCDecode
    dictionary_,        \* std::vector<std::string> dictionary_
    \* ---- one CTCDecode call: arguments, locals, return value
    ctc_pc,             \* "off" | "start" | "loop" | "done"
    output_data,        \* the [seq_len, vocab_size] tensor, a sequence of rows
    need_softmax,       \* bool need_softmax
    oob_read,           \* TRUE when the first-row probe read past the buffer
    t,                  \* loop counter
    result,             \* std::string result
    total_score,        \* float total_score
    char_count,         \* int char_count
    prev_idx,           \* int prev_idx
    blank_count,        \* int blank_count
    avg_score,          \* float avg_score (the returned confidence)
    \* ---- doc_detector.cpp: process-wide session state
    g_env,              \* g_env # nullptr
    g_session_options,  \* g_session_options # nullptr
    g_session,          \* g_session # nullptr
    g_initialized,      \* bool g_initialized
    num_inputs,         \* g_session->GetInputCount() of the layout model file
    \* ---- detectDocLayout: arguments, inference output, return value
    image,              \* [cols, rows] of the cv::Mat passed in
    lay_output,         \* the [N,6] tensor the model returns for this image
    conf_threshold,     \* argument of the latest call
    results,            \* std::vector<DetectionBox> returned by the latest call
    emitted_rows,       \* row index i of every results.push_back, in order
    lay_status,         \* how the latest call ended
    prev_threshold,     \* the same three of the call before the latest
    prev_results,
    prev_status,
    \* ---- OcrEngine::DBPostProcess: arguments, locals, return value
    db_map,             \* output_data: the probability map, pixel <<x, y>> -> value
    db_width,           \* int width of the map
    db_height,          \* int height of the map
    db_scale,           \* scale_x, scale_y (exact ratios)
    db_orig,            \* orig_width, orig_height
    db_threshold,       \* threshold of the latest call
    db_box_threshold,   \* box_threshold of the latest call
    db_binary,          \* foreground pixels of cv::Mat binary in the latest call
    db_boxes,           \* std::vector<TextBox> returned by the latest call
    db_status,          \* "off" | "none" | "done"
    db_prev,            \* the same five of the call before the latest
    \* ---- OcrEngine::RecognizeText: engine state, arguments, locals, return value
    initialized_,       \* bool initialized_
    ocr_image,          \* [cols, rows] of the cv::Mat passed in
    det_threshold,      \* argument det_threshold
    rec_threshold,      \* argument rec_threshold
    det_tensor,         \* the map the detection model returns for this image
    det_blob,           \* new_w, new_h of PreprocessForDetection
    det_scale,          \* scale_x, scale_y of PreprocessForDetection
    det_failed,         \* "none", or what raised in DetectText: "resize" | "engine"
    ocr_boxes,          \* std::vector<TextBox> boxes
    box_idx,            \* int box_idx
    ocr_regions,        \* [cols, rows] of the crop of every box processed
    ocr_events,         \* how the iteration of every box processed ended
    ocr_results,        \* std::vector<TextLineResult> results
    ocr_pc,             \* "off" | "start" | "loop" | "done" | "crop" | "cropped"
    \* ---- concurrent calls of detectDocLayout
    th_pc,              \* where every calling thread stands
    th_calls,           \* the calls every thread has started
    built,              \* how many Ort::Env, SessionOptions, Session were constructed
    \* ---- one PreprocessForDetection call
    pre_image,          \* [cols, rows] of the argument image
    pre_sides,          \* new_w, new_h before the rounding to a multiple of 32
    pre_new,            \* new_w, new_h after it: the size of the blob
    pre_scale,          \* the outputs scale_x, scale_y
    pre_pc,             \* "off" | "start" | "done"
    \* ---- OcrEngine members set by Init and Release; 0 is nullptr, any other
    \* value is the position in ort_objects of the object pointed to
    env_,                   \* Ort::Env* env_
    det_session_options_,   \* Ort::SessionOptions* det_session_options_
    rec_session_options_,   \* Ort::SessionOptions* rec_session_options_
    det_session_,           \* Ort::Session* det_session_
    rec_session_,           \* Ort::Session* rec_session_
    ort_objects,            \* every object made by new: its kind, path, number of deletes
    last_call,              \* the latest call on the engine and what it returned
    \* ---- Release on one thread while another thread is inside the engine
    rel_pc,             \* the statement of Release the releasing thread is at
    work_pc,            \* the call of the thread inside the engine, where it
                        \* stands, and the session pointer it has read
    work_left,          \* the polygons RecognizeText has still to recognize
    hazards,            \* the uses of a deleted or cleared member so far
    \* ---- RecognizeText called again on the same image
    rec_outputs,        \* the pair RecognizeRegion returned for every box processed
    ocr_prev            \* rec_threshold and results of the call before

ctcVars == <<dictionary_, ctc_pc, output_data, need_softmax, oob_read, t,
             result, total_score, char_count, prev_idx, blank_count, avg_score>>

layVars == <<g_env, g_session_options, g_session, g_initialized, num_inputs,
             image, lay_output, conf_threshold, results, emitted_rows, lay_status,
             prev_threshold, prev_results, prev_status>>

dbVars == <<db_map, db_width, db_height, db_scale, db_orig, db_threshold,
            db_box_threshold, db_binary, db_boxes, db_status, db_prev>>

ocrVars == <<initialized_, ocr_image, det_threshold, rec_threshold, det_tensor,
             det_blob, det_scale, det_failed, ocr_boxes, box_idx, ocr_regions,
             ocr_events, ocr_results, ocr_pc>>

thVars == <<th_pc, th_calls, built>>

preVars == <<pre_image, pre_sides, pre_new, pre_scale, pre_pc>>

engVars == <<env_, det_session_options_, rec_session_options_, det_session_,
             rec_session_, ort_objects, last_call>>

relVars == <<rel_pc, work_pc, work_left, hazards>>

\* the variables of a CTCDecode call and of a RecognizeText call that are no
\* members of the engine
ctcRest == <<ctc_pc, output_data, need_softmax, oob_read, t, result, total_score,
             char_count, prev_idx, blank_count, avg_score>>

ocrRest == <<ocr_image, det_threshold, rec_threshold, det_tensor, det_blob, det_scale,
             det_failed, ocr_boxes, box_idx, ocr_regions, ocr_events, ocr_results,
             ocr_pc>>

recVars == <<rec_outputs, ocr_prev>>

vars == <<ctcVars, layVars, dbVars, ocrVars, thVars, preVars, engVars, relVars, recVars>>

(***************************************************************************)
(* Bounds of the model.                                                    *)
(***************************************************************************)
NumVocab == 6        \* vocab_size of the recognition tensor
MaxSeqLen == 5       \* largest seq_len explored
MaxDet == 3          \* largest number of rows of the layout tensor

\* fixed-point unit: 1.0f is Milli
Milli == 10 * 10 * 10

(***************************************************************************)
(* Generic helpers.                                                        *)
(***************************************************************************)
Min2(a, b) == IF b < a THEN b ELSE a
Max2(a, b) == IF a < b THEN b ELSE a
Abs(a) == IF a < 0 THEN -a ELSE a

RECURSIVE SumSeq(_)
SumSeq(s) == IF s = <<>> THEN 0 ELSE Head(s) + SumSeq(Tail(s))

\* all sequences over S of length 0..n
SeqsUpTo(S, n) == UNION {[1..k -> S] : k \in 0..n}

(***************************************************************************)
(* Idle values of a component that a specification does not exercise.      *)
(***************************************************************************)
OffCTC ==
    /\ dictionary_ = <<>>
    /\ ctc_pc = "off"
    /\ output_data = <<>>
    /\ need_softmax = FALSE
    /\ oob_read = FALSE
    /\ t = 0
    /\ result = ""
    /\ total_score = 0
    /\ char_count = 0
    /\ prev_idx = -1
    /\ blank_count = 0
    /\ avg_score = 0

OffLayout ==
    /\ g_env = FALSE
    /\ g_session_options = FALSE
    /\ g_session = FALSE
    /\ g_initialized = FALSE
    /\ num_inputs = 0
    /\ image = [cols |-> 0, rows |-> 0]
    /\ lay_output = <<>>
    /\ conf_threshold = 0
    /\ results = <<>>
    /\ emitted_rows = <<>>
    /\ lay_status = "off"
    /\ prev_threshold = 0
    /\ prev_results = <<>>
    /\ prev_status = "off"

NoCall == [threshold |-> 0, box_threshold |-> 0, binary |-> {}, boxes |-> <<>>,
           status |-> "none"]

OffDB ==
    /\ db_map = <<>>
    /\ db_width = 0
    /\ db_height = 0
    /\ db_scale = [x |-> [num |-> 1, den |-> 1], y |-> [num |-> 1, den |-> 1]]
    /\ db_orig = [width |-> 0, height |-> 0]
    /\ db_threshold = 0
    /\ db_box_threshold = 0
    /\ db_binary = {}
    /\ db_boxes = <<>>
    /\ db_status = "off"
    /\ db_prev = NoCall

OffThreads ==
    /\ th_pc = <<>>
    /\ th_calls = <<>>
    /\ built = [env |-> 0, options |-> 0, session |-> 0]

NoEngineCall == [op |-> "none", n |-> 0]

OffEngine ==
    /\ env_ = 0
    /\ det_session_options_ = 0
    /\ rec_session_options_ = 0
    /\ det_session_ = 0
    /\ rec_session_ = 0
    /\ ort_objects = <<>>
    /\ last_call = NoEngineCall

OffRelease ==
    /\ rel_pc = "off"
    /\ work_pc = [op |-> "none", at |-> "off", session |-> 0]
    /\ work_left = 0
    /\ hazards = {}

NoOutput == [text |-> "", score |-> 0]

OffRec ==
    /\ rec_outputs = <<>>
    /\ ocr_prev = [status |-> "none", rec_threshold |-> 0, results |-> <<>>]

OffPre ==
    /\ pre_image = [cols |-> 0, rows |-> 0]
    /\ pre_sides = [width |-> 0, height |-> 0]
    /\ pre_new = [width |-> 0, height |-> 0]
    /\ pre_scale = [x |-> [num |-> 1, den |-> 1], y |-> [num |-> 1, den |-> 1]]
    /\ pre_pc = "off"

OffOCR ==
    /\ initialized_ = FALSE
    /\ ocr_image = [cols |-> 0, rows |-> 0]
    /\ det_threshold = 0
    /\ rec_threshold = 0
    /\ det_tensor = <<>>
    /\ det_blob = [width |-> 0, height |-> 0]
    /\ det_scale = [x |-> [num |-> 1, den |-> 1], y |-> [num |-> 1, den |-> 1]]
    /\ det_failed = "none"
    /\ ocr_boxes = <<>>
    /\ box_idx = 0
    /\ ocr_regions = <<>>
    /\ ocr_events = <<>>
    /\ ocr_results = <<>>
    /\ ocr_pc = "off"


(***************************************************************************)
(* Dictionary loading (OcrEngine::LoadDictionary).  A file is a sequence   *)
(* of lines; is_open is FALSE for a path that cannot be opened.            *)
(***************************************************************************)
DictFile(lines) == [is_open |-> TRUE, lines |-> lines]
NoFile == [is_open |-> FALSE, lines |-> <<>>]

RECURSIVE LoadLines(_)
LoadLines(lines) ==
    IF lines = <<>> THEN <<>>
    ELSE <<IF Head(lines) = "" THEN " " ELSE Head(lines)>> \o LoadLines(Tail(lines))

\* dictionary_ after LoadDictionary(file) when dictionary_ was old
LoadDictionary(old, file) ==
    IF ~file.is_open THEN old
    ELSE LET body == <<"">> \o LoadLines(file.lines)
             spaced == IF body[Len(body)] # " " THEN body \o <<" ">> ELSE body
         IN  spaced \o <<"">>

\* dictionary_[i] with the source's 0-based index
DictAt(dict, i) == dict[i + 1]

\* the dictionary files explored
DictFiles == { DictFile(<<"B", "C", "D", "E", "A">>), DictFile(<<"B", "A">>), NoFile }

(***************************************************************************)
(* OcrEngine::CTCDecode.                                                   *)
(***************************************************************************)
VocabIdx == 0..(NumVocab - 1)

\* std::exp(d) for d <= 0, tabulated every 0.25 down to -4.0
ExpTable == <<1000, 779, 607, 472, 368, 287, 223, 174, 135, 105, 82, 64, 50,
              39, 30, 24, 18>>
ExpMilli(d) ==
    LET k == ((-d) * 4) \div Milli
    IN  IF k + 1 > Len(ExpTable) THEN 0 ELSE ExpTable[k + 1]

\* the rows explored: probability rows (sum 1.0) and one logit row
Hot(k) == [v \in VocabIdx |-> IF v = k THEN Milli ELSE 0]
TieRow == [v \in VocabIdx |-> IF v \in {1, 2} THEN Milli \div 2 ELSE 0]
LogitRow == [v \in VocabIdx |-> IF v = 0 THEN -Milli ELSE IF v = 1 THEN 2 * Milli ELSE 0]
Peaks == {0, NumVocab - 1}
Rows == {Hot(k) : k \in Peaks} \cup {TieRow, LogitRow}

RowMin(row) == CHOOSE m \in {row[v] : v \in VocabIdx} : \A v \in VocabIdx : m <= row[v]
RowMax(row) == CHOOSE m \in {row[v] : v \in VocabIdx} : \A v \in VocabIdx : row[v] <= m
RowSum(row) == SumSeq([i \in 1..NumVocab |-> row[i - 1]])

\* lines 409-421: the heuristic evaluated on the first vocab_size floats
NeedSoftmaxOf(row) == RowMin(row) < -1 \/ Abs(RowSum(row) - Milli) > Milli \div 10

\* lines 432-455: probs of one timestep
Softmax(row) ==
    LET max_logit == RowMax(row)
        e == [v \in VocabIdx |-> ExpMilli(row[v] - max_logit)]
        sum_exp == RowSum(e)
    IN  [v \in VocabIdx |-> (e[v] * Milli) \div sum_exp]

Probs(row, ns) == IF ns THEN Softmax(row) ELSE row

\* lines 457-465: first index holding the strictly greatest value
ArgMax(probs) ==
    CHOOSE i \in VocabIdx :
        /\ \A v \in VocabIdx : probs[v] <= probs[i]
        /\ \A v \in VocabIdx : v < i => probs[v] < probs[i]

\* line 468: the blank test
IsBlank_Last(max_idx) == max_idx = NumVocab - 1
IsBlank(max_idx) == max_idx = 0

\* line 483: prev_idx after a timestep whose argmax is max_idx
NextPrevIdx_Emitted(max_idx, emit) == IF emit THEN max_idx ELSE prev_idx
NextPrevIdx(max_idx, emit) == max_idx

\* line 486: the mean of the accumulated probabilities
AvgScore_BySeqLen(total, count) == IF count > 0 THEN total \div Len(output_data) ELSE 0
AvgScore(total, count) == IF count > 0 THEN total \div count ELSE 0

InitCTC ==
    /\ \E file \in DictFiles : dictionary_ = LoadDictionary(<<>>, file)
    /\ output_data \in SeqsUpTo(Rows, MaxSeqLen)
    /\ ctc_pc = "start"
    /\ need_softmax = FALSE
    /\ oob_read = FALSE
    /\ t = 0
    /\ result = ""
    /\ total_score = 0
    /\ char_count = 0
    /\ prev_idx = -1
    /\ blank_count = 0
    /\ avg_score = 0

\* total_score += max_val, in the branch that emits
ScoreAfter_Always(total, max_val, emit) == total + max_val

ScoreAfter(total, max_val, emit) == IF emit THEN total + max_val ELSE total

\* lines 409-426: probe of the first timestep.  With seq_len = 0 the buffer
\* holds no element: the reads are out of bounds, the floats read are
\* indeterminate and the process may fault.
CTCProbe ==
    /\ ctc_pc = "start"
    /\ IF Len(output_data) = 0
       THEN /\ oob_read' = TRUE
            /\ need_softmax' \in BOOLEAN
            /\ ctc_pc' \in {"loop", "fault"}
       ELSE /\ oob_read' = FALSE
            /\ need_softmax' = NeedSoftmaxOf(output_data[1])
            /\ ctc_pc' = "loop"
    /\ UNCHANGED <<dictionary_, output_data, t, result, total_score, char_count,
                   prev_idx, blank_count, avg_score>>
    /\ UNCHANGED <<layVars, dbVars, ocrVars, thVars, preVars, engVars, relVars, recVars>>

\* lines 428-484: one iteration of the timestep loop
CTCStep ==
    /\ ctc_pc = "loop"
    /\ t < Len(output_data)
    /\ LET probs == Probs(output_data[t + 1], need_softmax)
           max_idx == ArgMax(probs)
           max_val == probs[max_idx]
           emit == ~IsBlank(max_idx) /\ max_idx # prev_idx /\ max_idx < Len(dictionary_)
       IN  /\ blank_count' = IF IsBlank(max_idx) THEN blank_count + 1 ELSE blank_count
           /\ result' = IF emit THEN result \o DictAt(dictionary_, max_idx) ELSE result
           /\ total_score' = ScoreAfter(total_score, max_val, emit)
           /\ char_count' = IF emit THEN char_count + 1 ELSE char_count
           /\ prev_idx' = NextPrevIdx(max_idx, emit)
    /\ t' = t + 1
    /\ UNCHANGED <<dictionary_, ctc_pc, output_data, need_softmax, oob_read, avg_score>>
    /\ UNCHANGED <<layVars, dbVars, ocrVars, thVars, preVars, engVars, relVars, recVars>>

\* lines 486-493: the returned pair {result, avg_score}
CTCReturn ==
    /\ ctc_pc = "loop"
    /\ t = Len(output_data)
    /\ avg_score' = AvgScore(total_score, char_count)
    /\ ctc_pc' = "done"
    /\ UNCHANGED <<dictionary_, output_data, need_softmax, oob_read, t, result,
                   total_score, char_count, prev_idx, blank_count>>
    /\ UNCHANGED <<layVars, dbVars, ocrVars, thVars, preVars, engVars, relVars, recVars>>

NextCTC == CTCProbe \/ CTCStep \/ CTCReturn

StartCTC ==
    /\ InitCTC
    /\ OffLayout
    /\ OffDB
    /\ OffOCR
    /\ OffThreads
    /\ OffPre
    /\ OffEngine
    /\ OffRelease
    /\ OffRec

SpecCTC == StartCTC /\ [][NextCTC]_vars

(***************************************************************************)
(* Layout detection: detectDocLayout (src/src/detect/doc_detector.cpp).    *)
(* Emitted coordinates are kept in units of 1/TargetWidth pixel (x) and    *)
(* 1/TargetHeight pixel (y), which makes x * (1 / scale_factor) exact.     *)
(***************************************************************************)
DOC_CLASSES ==
    << "paragraph_title", "image", "text", "number", "abstract", "content",
       "figure_title", "formula", "table", "table_title", "reference",
       "doc_title", "footnote", "header", "algorithm", "footer", "seal",
       "chart_title", "chart", "formula_number", "header_image",
       "footer_image", "aside_text" >>

TargetWidth == 640
TargetHeight == 640

\* static_cast<int>(float): truncation toward zero
TruncToInt(f) == IF f < 0 THEN -((-f) \div Milli) ELSE f \div Milli

\* image.empty()
ImageEmpty(img) == img.cols = 0 \/ img.rows = 0

\* utils.cpp preprocessImage: the scale factors, as exact ratios
preprocessImage(img, target_width, target_height) ==
    [scale_x |-> [num |-> target_width, den |-> img.cols],
     scale_y |-> [num |-> target_height, den |-> img.rows]]

\* line 144: bool is_l_model
IsLModel_TwoInputs(n) == n = 2
IsLModel(n) == n = 3

\* lines 195-196: inv_scale_x, inv_scale_y
InvScale(is_l_model, scale) ==
    IF is_l_model THEN [num |-> 1, den |-> 1]
    ELSE [num |-> scale.den, den |-> scale.num]

\* x * inv_scale, in units of 1/unit pixel
ScaleCoord(x, inv, unit) == (x * inv.num * unit) \div inv.den

\* std::max(0.0f, std::min(v, hi))
Clamp(v, hi) == Max2(0, Min2(v, hi))

\* line 206: the filter
KeepRow_Strict(row, threshold) ==
    /\ row.score > threshold
    /\ TruncToInt(row.cls) >= 0
    /\ TruncToInt(row.cls) < Len(DOC_CLASSES)
KeepRow_Below(row, threshold) ==
    /\ row.score <= threshold
    /\ TruncToInt(row.cls) >= 0
    /\ TruncToInt(row.cls) < Len(DOC_CLASSES)
KeepRow(row, threshold) ==
    /\ row.score >= threshold
    /\ TruncToInt(row.cls) >= 0
    /\ TruncToInt(row.cls) < Len(DOC_CLASSES)

\* lines 207-221: the DetectionBox of a kept row
MakeBox(row, inv_x, inv_y, img) ==
    [x1 |-> Clamp(ScaleCoord(row.x1, inv_x, TargetWidth), img.cols * TargetWidth),
     y1 |-> Clamp(ScaleCoord(row.y1, inv_y, TargetHeight), img.rows * TargetHeight),
     x2 |-> Clamp(ScaleCoord(row.x2, inv_x, TargetWidth), img.cols * TargetWidth),
     y2 |-> Clamp(ScaleCoord(row.y2, inv_y, TargetHeight), img.rows * TargetHeight),
     score |-> row.score,
     class_id |-> TruncToInt(row.cls),
     class_name |-> DOC_CLASSES[TruncToInt(row.cls) + 1]]

\* lines 198-224: the loop over the num_detections rows, from row i on
RECURSIVE PostLoop(_, _, _, _, _, _, _)
PostLoop(output, i, threshold, inv_x, inv_y, img, acc) ==
    IF i > Len(output) THEN acc
    ELSE PostLoop(output, i + 1, threshold, inv_x, inv_y, img,
            IF KeepRow(output[i], threshold)
            THEN [boxes |-> Append(acc.boxes, MakeBox(output[i], inv_x, inv_y, img)),
                  rows |-> Append(acc.rows, i)]
            ELSE acc)

\* lines 111-224 after a successful Run: [boxes, rows]
PostProcessLayout(output, img, n_inputs, threshold) ==
    LET scale_factor == preprocessImage(img, TargetWidth, TargetHeight)
        is_l_model == IsLModel(n_inputs)
        inv_scale_x == InvScale(is_l_model, scale_factor.scale_x)
        inv_scale_y == InvScale(is_l_model, scale_factor.scale_y)
    IN  PostLoop(output, 1, threshold, inv_scale_x, inv_scale_y, img,
                 [boxes |-> <<>>, rows |-> <<>>])

\* the inputs explored
LayRow(cls, score, x1, y1, x2, y2) ==
    [cls |-> cls, score |-> score, x1 |-> x1, y1 |-> y1, x2 |-> x2, y2 |-> y2]
LayRows ==
    { LayRow(2 * Milli, 700, 100, 100, 300, 200),
      LayRow(0, 500, 0, 0, 640, 640),
      LayRow(23 * Milli, 950, 10, 10, 20, 20),
      LayRow(-Milli, 950, 10, 10, 20, 20),
      LayRow(8 * Milli, 900, 300, 200, 100, 100),
      LayRow(22 * Milli + 900, 1200, -20, -10, 700, 900) }
Images == { [cols |-> 320, rows |-> 320], [cols |-> 640, rows |-> 480],
            [cols |-> 0, rows |-> 0] }
Thresholds == {500, 800}

InitLayout ==
    /\ g_env = FALSE
    /\ g_session_options = FALSE
    /\ g_session = FALSE
    /\ g_initialized = FALSE
    /\ num_inputs \in {2, 3}
    /\ image \in Images
    /\ lay_output \in SeqsUpTo(LayRows, MaxDet)
    /\ conf_threshold = 0
    /\ results = <<>>
    /\ emitted_rows = <<>>
    /\ lay_status = "none"
    /\ prev_threshold = 0
    /\ prev_results = <<>>
    /\ prev_status = "none"

\* the return of a call: the latest call becomes the previous one
EndCall(threshold, status, boxes, rows) ==
    /\ prev_threshold' = conf_threshold
    /\ prev_results' = results
    /\ prev_status' = lay_status
    /\ conf_threshold' = threshold
    /\ results' = boxes
    /\ emitted_rows' = rows
    /\ lay_status' = status
    /\ UNCHANGED <<num_inputs, image, lay_output>>
    /\ UNCHANGED <<ctcVars, dbVars, ocrVars, thVars, preVars, engVars, relVars, recVars>>

\* lines 85-88: empty image
detectDocLayout_EmptyImage ==
    \E threshold \in Thresholds :
    /\ lay_status # "off"
    /\ ImageEmpty(image)
    /\ EndCall(threshold, "empty_image", <<>>, <<>>)
    /\ UNCHANGED <<g_env, g_session_options, g_session, g_initialized>>

\* lines 24-78, 92, 226-232: initOnnxSession throws while loading the model
detectDocLayout_LoadFails ==
    \E threshold \in Thresholds :
    /\ lay_status # "off"
    /\ ~ImageEmpty(image)
    /\ ~g_initialized
    /\ g_env' = TRUE
    /\ g_session_options' = TRUE
    /\ UNCHANGED <<g_session, g_initialized>>
    /\ EndCall(threshold, "load_failed", <<>>, <<>>)

\* initOnnxSession when it returns normally
SessionReady ==
    /\ g_env' = TRUE
    /\ g_session_options' = TRUE
    /\ g_session' = TRUE
    /\ g_initialized' = TRUE

\* lines 178-181, 226-232: g_session->Run throws
detectDocLayout_RunFails ==
    \E threshold \in Thresholds :
    /\ lay_status # "off"
    /\ ~ImageEmpty(image)
    /\ SessionReady
    /\ EndCall(threshold, "run_failed", <<>>, <<>>)

\* lines 80-235: the call runs to the end of the loop
detectDocLayout_Ok ==
    \E threshold \in Thresholds :
    /\ lay_status # "off"
    /\ ~ImageEmpty(image)
    /\ SessionReady
    /\ LET out == PostProcessLayout(lay_output, image, num_inputs, threshold)
       IN  EndCall(threshold, "ok", out.boxes, out.rows)

NextLayout ==
    \/ detectDocLayout_EmptyImage
    \/ detectDocLayout_LoadFails
    \/ detectDocLayout_RunFails
    \/ detectDocLayout_Ok

StartLayout ==
    /\ InitLayout
    /\ OffCTC
    /\ OffDB
    /\ OffOCR
    /\ OffThreads
    /\ OffPre
    /\ OffEngine
    /\ OffRelease
    /\ OffRec

SpecLayout == StartLayout /\ [][NextLayout]_vars

(***************************************************************************)
(* OcrEngine::DBPostProcess  (src/ocr/ocr_engine.cpp).                     *)
(*                                                                         *)
(* The probability map is a function from pixels <<x, y>> to values in     *)
(* thousandths.  Output coordinates are kept in units of 1/Sub pixel, so   *)
(* that the division by scale_x, scale_y is exact for the scale factors    *)
(* explored.  The OpenCV calls are modelled by their documented behaviour  *)
(* on the regions explored: filled axis-aligned rectangles and diamonds    *)
(* (|dx| + |dy| <= r); see RegionsAreModelled.                             *)
(***************************************************************************)
Sub == 1 + 1

Pixels(width, height) == (0..(width - 1)) \X (0..(height - 1))

RECURSIVE SumOver(_, _)
SumOver(f, S) ==
    IF S = {} THEN 0
    ELSE LET p == CHOOSE q \in S : TRUE IN f[p] + SumOver(f, S \ {p})

MapMin(map) == CHOOSE v \in {map[p] : p \in DOMAIN map} :
                   \A p \in DOMAIN map : v <= map[p]
MapMax(map) == CHOOSE v \in {map[p] : p \in DOMAIN map} :
                   \A p \in DOMAIN map : map[p] <= v

\* exp of an argument of either sign, from the table of exp on [-4, 0]
ExpAny(d) ==
    IF d <= 0 THEN ExpMilli(d)
    ELSE IF ExpMilli(-d) = 0 THEN Milli * Milli * Milli
    ELSE (Milli * Milli) \div ExpMilli(-d)

\* cv::exp(-prob_map, prob_map); prob_map = 1.0 / (1.0 + prob_map)
Sigmoid(v) == (Milli * Milli) \div (Milli + ExpAny(-v))

\* min_val < -0.1 || max_val > 1.1
LooksLikeLogits(map) ==
    MapMin(map) < -(Milli \div 10) \/ MapMax(map) > Milli + Milli \div 10

Activate(map) ==
    IF LooksLikeLogits(map) THEN [p \in DOMAIN map |-> Sigmoid(map[p])]
    ELSE map

\* cv::threshold(..., THRESH_BINARY): foreground iff value > threshold
Binarize_Inverted(prob_map, threshold) ==
    {p \in DOMAIN prob_map : prob_map[p] <= threshold}

Binarize(prob_map, threshold) ==
    {p \in DOMAIN prob_map : prob_map[p] > threshold}

\* cv::findContours follows the borders of 8-connected foreground regions
Adjacent(p, q) == p # q /\ Abs(p[1] - q[1]) <= 1 /\ Abs(p[2] - q[2]) <= 1

RECURSIVE Grow(_, _)
Grow(S, mask) ==
    LET more == {q \in mask \ S : \E p \in S : Adjacent(p, q)}
    IN  IF more = {} THEN S ELSE Grow(S \cup more, mask)

\* raster order: top row first, left to right
RasterFirst(S) ==
    CHOOSE p \in S : \A q \in S : p[2] < q[2] \/ (p[2] = q[2] /\ p[1] <= q[1])

\* the regions of the mask, one per outer contour
RECURSIVE Regions(_)
Regions(mask) ==
    IF mask = {} THEN <<>>
    ELSE LET region == Grow({RasterFirst(mask)}, mask)
         IN  <<region>> \o Regions(mask \ region)

MinX(S) == CHOOSE v \in {p[1] : p \in S} : \A p \in S : v <= p[1]
MaxX(S) == CHOOSE v \in {p[1] : p \in S} : \A p \in S : p[1] <= v
MinY(S) == CHOOSE v \in {p[2] : p \in S} : \A p \in S : v <= p[2]
MaxY(S) == CHOOSE v \in {p[2] : p \in S} : \A p \in S : p[2] <= v

IsRectRegion(S) ==
    S = (MinX(S)..MaxX(S)) \X (MinY(S)..MaxY(S))

IsDiamondRegion(S) ==
    LET w == MaxX(S) - MinX(S)
        r == w \div 2
        cx == MinX(S) + r
        cy == MinY(S) + r
    IN  /\ w = MaxY(S) - MinY(S)
        /\ w % 2 = 0
        /\ r >= 1
        /\ S = {p \in (MinX(S)..MaxX(S)) \X (MinY(S)..MaxY(S)) :
                    Abs(p[1] - cx) + Abs(p[2] - cy) <= r}

\* the points CHAIN_APPROX_SIMPLE keeps for the border of a region: the
\* end points of its straight runs.  A pixel gives 1 point, a line of
\* width 1 gives 2, a rectangle its 4 corners, a diamond its 4 tips.
\* Any other region is outside the maps explored; its bounding rectangle
\* stands in for it.
Contour(S) ==
    LET x0 == MinX(S)
        x1 == MaxX(S)
        y0 == MinY(S)
        y1 == MaxY(S)
        r == (x1 - x0) \div 2
    IN  IF IsRectRegion(S) /\ x0 = x1 /\ y0 = y1 THEN << <<x0, y0>> >>
        ELSE IF IsRectRegion(S) /\ (x0 = x1 \/ y0 = y1)
             THEN << <<x0, y0>>, <<x1, y1>> >>
        ELSE IF IsDiamondRegion(S)
             THEN << <<x0 + r, y0>>, <<x0, y0 + r>>, <<x0 + r, y1>>, <<x1, y0 + r>> >>
        ELSE << <<x0, y0>>, <<x0, y1>>, <<x1, y1>>, <<x1, y0>> >>

\* squared distance, to compare side lengths without a square root
Dist2(p, q) == (p[1] - q[1]) * (p[1] - q[1]) + (p[2] - q[2]) * (p[2] - q[2])

\* cv::minAreaRect of a contour of 4 points that form a rectangle: the
\* rectangle itself.  width2, height2 are the squares of size.width, size.height.
minAreaRect(contour) ==
    [vertices |-> contour,
     width2 |-> Dist2(contour[1], contour[2]),
     height2 |-> Dist2(contour[2], contour[3])]

\* cv::mean(prob_map, mask) over the filled contour, which is the region
MeanScore(prob_map, region) == SumOver(prob_map, region) \div Cardinality(region)

\* std::min(box_width, box_height) < 3
MinSide == 3
TooSmall_Never(rect) == FALSE

TooSmall(rect) == Min2(rect.width2, rect.height2) < MinSide * MinSide


\* x = vertices[i].x / scale_x, in units of 1/Sub pixel
Unscale(v, scale) == (v * Sub * scale.den) \div scale.num

\* the loop over the 4 vertices: scale back, clamp, push_back
ScaledPoints(vertices, scale, orig) ==
    [i \in 1..4 |->
        [x |-> Max2(0, Min2(Unscale(vertices[i][1], scale.x), orig.width * Sub)),
         y |-> Max2(0, Min2(Unscale(vertices[i][2], scale.y), orig.height * Sub))]]

Arrangements(n) == {f \in [1..n -> 1..n] : \A i, j \in 1..n : i # j => f[i] # f[j]}

\* std::sort with a.y < b.y: some arrangement with non-decreasing y; the
\* order of points with equal y is not determined
SortByY(points) ==
    {[i \in 1..4 |-> points[f[i]]] : f \in
        {g \in Arrangements(4) :
            \A i, j \in 1..4 : i < j => ~(points[g[j]].y < points[g[i]].y)}}

SwapAt(s, i, j) == [s EXCEPT ![i] = s[j], ![j] = s[i]]

\* if (box.points[0].x > box.points[1].x) swap
OrderTop(s) == IF s[1].x > s[2].x THEN SwapAt(s, 1, 2) ELSE s

OrderBottom_Reversed(s) == IF s[3].x > s[4].x THEN SwapAt(s, 3, 4) ELSE s

\* if (box.points[2].x < box.points[3].x) swap
OrderBottom(s) == IF s[3].x < s[4].x THEN SwapAt(s, 3, 4) ELSE s

OrderPoints(points) == {OrderBottom(OrderTop(s)) : s \in SortByY(points)}

\* the body of the loop over the contours: the boxes it may push for one
\* region, none if the region is skipped
BoxesOfRegion(prob_map, region, scale, orig, box_threshold) ==
    LET contour == Contour(region)
        rect == minAreaRect(contour)
        mean_score == MeanScore(prob_map, region)
    IN  IF Len(contour) < 4 THEN {}
        ELSE IF mean_score < box_threshold THEN {}
        ELSE IF TooSmall(rect) THEN {}
        ELSE {[points |-> pts, score |-> mean_score] :
                 pts \in OrderPoints(ScaledPoints(rect.vertices, scale, orig))}

\* the comparator of the final std::sort, on twice the mean of the top y
LineTolerance == 10
BoxLess(a, b) ==
    LET a_y == a.points[1].y + a.points[2].y
        b_y == b.points[1].y + b.points[2].y
    IN  IF Abs(a_y - b_y) > 2 * LineTolerance * Sub THEN a_y < b_y
        ELSE a.points[1].x < b.points[1].x

BoxEquiv(a, b) == ~BoxLess(a, b) /\ ~BoxLess(b, a)

\* whether the comparator is a strict weak ordering of these boxes
StrictWeakOn(boxes) ==
    LET I == 1..Len(boxes)
    IN  /\ \A i, j \in I : BoxLess(boxes[i], boxes[j]) => ~BoxLess(boxes[j], boxes[i])
        /\ \A i, j, k \in I :
               BoxLess(boxes[i], boxes[j]) /\ BoxLess(boxes[j], boxes[k])
                   => BoxLess(boxes[i], boxes[k])
        /\ \A i, j, k \in I :
               BoxEquiv(boxes[i], boxes[j]) /\ BoxEquiv(boxes[j], boxes[k])
                   => BoxEquiv(boxes[i], boxes[k])

\* std::sort of the boxes: an arrangement in which no box precedes a box
\* that is less; any arrangement when the comparator is no strict weak
\* ordering of them (the behaviour of std::sort is then undefined)
SortBoxes(boxes) ==
    LET n == Len(boxes)
        arranged(f) == [i \in 1..n |-> boxes[f[i]]]
    IN  IF StrictWeakOn(boxes)
        THEN {arranged(f) : f \in
                 {g \in Arrangements(n) :
                     \A i, j \in 1..n : i < j => ~BoxLess(boxes[g[j]], boxes[g[i]])}}
        ELSE {arranged(f) : f \in Arrangements(n)}

\* all ways to take one box from each set of a sequence of sets, dropping
\* the empty ones
RECURSIVE Pushed(_)
Pushed(sets) ==
    IF sets = <<>> THEN {<<>>}
    ELSE IF Head(sets) = {} THEN Pushed(Tail(sets))
    ELSE {<<b>> \o rest : b \in Head(sets), rest \in Pushed(Tail(sets))}

\* the values DBPostProcess may return
DBPostProcess(data, height, width, scale, orig, threshold, box_threshold) ==
    LET prob_map == Activate(data)
        contours == Regions(Binarize(prob_map, threshold))
        perContour == [i \in 1..Len(contours) |->
                          BoxesOfRegion(prob_map, contours[i], scale, orig, box_threshold)]
    IN  UNION {SortBoxes(boxes) : boxes \in Pushed(perContour)}


\* ---- the probability maps explored
MapWidth == 12
MapHeight == 8

RectArea(x0, y0, x1, y1) == (x0..x1) \X (y0..y1)
DiamondArea(cx, cy, r) ==
    {p \in RectArea(cx - r, cy - r, cx + r, cy + r) :
        Abs(p[1] - cx) + Abs(p[2] - cy) <= r}

Layer(area, value) == [area |-> area, value |-> value]

RECURSIVE ValueAt(_, _, _)
ValueAt(p, layers, background) ==
    IF layers = <<>> THEN background
    ELSE IF p \in Head(layers).area THEN Head(layers).value
    ELSE ValueAt(p, Tail(layers), background)

Paint(width, height, layers, background) ==
    [data |-> [p \in Pixels(width, height) |-> ValueAt(p, layers, background)],
     width |-> width,
     height |-> height]

High == 950
Mid == 450
Low == 350

\* one text block
SingleBlock == Paint(MapWidth, MapHeight, <<Layer(RectArea(2, 2, 6, 5), High)>>, 0)
\* two blocks joined by a strip of middling probability
Bridged == Paint(MapWidth, MapHeight,
                 <<Layer(RectArea(0, 1, 3, 5), High), Layer(RectArea(8, 1, 11, 5), High),
                   Layer(RectArea(4, 1, 7, 5), Mid)>>, 0)
\* a block rotated by 45 degrees
Tilted == Paint(MapWidth, MapHeight, <<Layer(DiamondArea(5, 4, 3), High)>>, 0)
\* a block of low probability
Faint == Paint(MapWidth, MapHeight, <<Layer(RectArea(2, 2, 6, 5), Low)>>, 0)
\* a pixel, a line of width 1 and a 2x2 block
Specks == Paint(MapWidth, MapHeight,
                <<Layer(RectArea(1, 1, 1, 1), High), Layer(RectArea(3, 3, 7, 3), High),
                  Layer(RectArea(9, 5, 10, 6), High)>>, 0)
\* a block given as logits
Logits == Paint(MapWidth, MapHeight, <<Layer(RectArea(2, 2, 6, 5), 3 * Milli)>>,
                -3 * Milli)
\* a 4x4 map with a 2x2 block at (1,1)-(2,2)
SmallBlob == Paint(4, 4, <<Layer(RectArea(1, 1, 2, 2), High)>>, 0)

\* three blocks, each 6 rows below and to the left of the one before
Staircase == Paint(14, 16,
                   <<Layer(RectArea(10, 0, 13, 3), High), Layer(RectArea(5, 6, 8, 9), High),
                     Layer(RectArea(0, 12, 3, 15), High)>>, 0)

DBInputs == {SingleBlock, Bridged, Tilted, Faint, Specks, Logits, SmallBlob, Staircase}

Ratio(num, den) == [num |-> num, den |-> den]
DBScales == {[x |-> Ratio(1, 1), y |-> Ratio(1, 1)], [x |-> Ratio(2, 1), y |-> Ratio(2, 1)]}

\* original dimensions: those of the map and, for the maps of the common
\* size, smaller ones that clamp
DBOrigs(input) ==
    {[width |-> input.width, height |-> input.height]}
        \cup (IF input.width = MapWidth THEN {[width |-> 6, height |-> 4]} ELSE {})

DBThresholds == {(3 * Milli) \div 10, (5 * Milli) \div 10}

\* DetectText calls DBPostProcess(..., threshold, 0.3f)
DetectBoxThreshold == (3 * Milli) \div 10
\* the default argument box_threshold = 0.5f
DefaultBoxThreshold == (5 * Milli) \div 10

InitDB ==
    /\ \E input \in DBInputs :
          /\ db_map = input.data
          /\ db_width = input.width
          /\ db_height = input.height
          /\ db_orig \in DBOrigs(input)
    /\ db_scale \in DBScales
    /\ db_threshold = 0
    /\ db_box_threshold = 0
    /\ db_binary = {}
    /\ db_boxes = <<>>
    /\ db_status = "none"
    /\ db_prev = NoCall

\* the arguments of the calls explored, and what DBPostProcess may return
\* for each of them
DBCalls ==
    UNION {{<<input.data, input.height, input.width, scale, orig, threshold, box_threshold>> :
                scale \in DBScales, orig \in DBOrigs(input), threshold \in DBThresholds,
                box_threshold \in {DetectBoxThreshold, DefaultBoxThreshold}} :
           input \in DBInputs}

DBReturns ==
    [c \in DBCalls |-> DBPostProcess(c[1], c[2], c[3], c[4], c[5], c[6], c[7])]

\* one call of DBPostProcess on the map
CallDBPostProcess(threshold, box_threshold) ==
    /\ db_boxes' \in DBReturns[<<db_map, db_height, db_width, db_scale, db_orig,
                                  threshold, box_threshold>>]
    /\ db_binary' = Binarize(Activate(db_map), threshold)
    /\ db_threshold' = threshold
    /\ db_box_threshold' = box_threshold
    /\ db_status' = "done"
    /\ db_prev' = [threshold |-> db_threshold, box_threshold |-> db_box_threshold,
                   binary |-> db_binary, boxes |-> db_boxes, status |-> db_status]
    /\ UNCHANGED <<db_map, db_width, db_height, db_scale, db_orig>>
    /\ UNCHANGED <<ctcVars, layVars, ocrVars, thVars, preVars, engVars, relVars, recVars>>

\* the call made by DetectText
DetectText_DBPostProcess ==
    /\ db_status \in {"none", "done"}
    /\ \E threshold \in DBThresholds : CallDBPostProcess(threshold, DetectBoxThreshold)

\* a call with the default box threshold
DBPostProcess_DefaultBox ==
    /\ db_status \in {"none", "done"}
    /\ \E threshold \in DBThresholds : CallDBPostProcess(threshold, DefaultBoxThreshold)

NextDB ==
    \/ DetectText_DBPostProcess
    \/ DBPostProcess_DefaultBox

StartDB ==
    /\ InitDB
    /\ OffCTC
    /\ OffLayout
    /\ OffOCR
    /\ OffThreads
    /\ OffPre
    /\ OffEngine
    /\ OffRelease
    /\ OffRec

SpecDB == StartDB /\ [][NextDB]_vars

\* every region met is one whose contour the model describes
RegionsAreModelled ==
    db_status = "done" =>
        \A i \in 1..Len(Regions(db_binary)) :
            LET region == Regions(db_binary)[i]
            IN  IsRectRegion(region) \/ IsDiamondRegion(region)

(***************************************************************************)
(* OcrEngine::PreprocessForDetection, CropTextRegion, DetectText,          *)
(* RecognizeRegion and RecognizeText  (src/ocr/ocr_engine.cpp).            *)
(* Polygon coordinates are in units of 1/Sub pixel, as DBPostProcess       *)
(* leaves them.                                                            *)
(***************************************************************************)
DET_MAX_SIDE == 960
DET_LIMIT_SIDE == 32

\* static_cast<int>(orig * ratio).  ratio is 1.0f, or the float nearest to
\* 960 / max_side; then the float product can fall just below a product
\* that is an integer in exact arithmetic, and the cast gives one less.
ResizedSides(orig, max_side) ==
    IF max_side > DET_MAX_SIDE
    THEN LET exact == (orig * DET_MAX_SIDE) \div max_side
         IN  IF (orig * DET_MAX_SIDE) % max_side = 0 /\ exact > 0
             THEN {exact, exact - 1}
             ELSE {exact}
    ELSE {orig}

RoundUp_Down(n) == (n \div DET_LIMIT_SIDE) * DET_LIMIT_SIDE

\* ((n + DET_LIMIT_SIDE - 1) / DET_LIMIT_SIDE) * DET_LIMIT_SIDE
RoundUp(n) == ((n + DET_LIMIT_SIDE - 1) \div DET_LIMIT_SIDE) * DET_LIMIT_SIDE

\* the values PreprocessForDetection may compute for an image: the sides
\* before rounding, new_w, new_h, scale_x, scale_y
PreprocessForDetection(img) ==
    LET max_side == Max2(img.rows, img.cols)
    IN  {[pre_w |-> w, pre_h |-> h,
          new_w |-> RoundUp(w), new_h |-> RoundUp(h),
          scale_x |-> [num |-> RoundUp(w), den |-> img.cols],
          scale_y |-> [num |-> RoundUp(h), den |-> img.rows]] :
            w \in ResizedSides(img.cols, max_side),
            h \in ResizedSides(img.rows, max_side)}

\* floor of the square root
ISqrt(n) == CHOOSE r \in 0..n : r * r <= n /\ (r + 1) * (r + 1) > n

EmptyMat == [cols |-> 0, rows |-> 0]

CoordsX(points) == {points[k].x : k \in 1..Len(points)}
CoordsY(points) == {points[k].y : k \in 1..Len(points)}
SetMin(S) == CHOOSE v \in S : \A w \in S : v <= w
SetMax(S) == CHOOSE v \in S : \A w \in S : w <= v

\* static_cast<int>(sqrt(d2)) for a distance whose square is d2 / Sub^2
\* pixels, after "if (width < 1) width = 1"
SideLength(d2) == Max2(1, ISqrt(d2 \div (Sub * Sub)))

PointDist2(p, q) == (p.x - q.x) * (p.x - q.x) + (p.y - q.y) * (p.y - q.y)

\* if (cropped.rows > cropped.cols * 1.5) rotate 90 degrees clockwise
IsVertical_Never(mat) == FALSE

IsVertical(mat) == 2 * mat.rows > 3 * mat.cols

Rotate90(mat) == [cols |-> mat.rows, rows |-> mat.cols]

\* x2 <= x1 || y2 <= y1
DegenerateBox_Strict(x1, y1, x2, y2) == x2 < x1 \/ y2 < y1

DegenerateBox(x1, y1, x2, y2) == x2 <= x1 \/ y2 <= y1

\* the size of the warped crop, before the orientation step
WarpedSize(box) ==
    [cols |-> SideLength(PointDist2(box.points[2], box.points[1])),
     rows |-> SideLength(PointDist2(box.points[4], box.points[1]))]

\* the size of the cv::Mat CropTextRegion returns; EmptyMat for cv::Mat()
CropTextRegion(img, box) ==
    IF Len(box.points) # 4 THEN EmptyMat
    ELSE LET x1 == Max2(0, SetMin(CoordsX(box.points))) \div Sub
             y1 == Max2(0, SetMin(CoordsY(box.points))) \div Sub
             x2 == Min2(img.cols * Sub, SetMax(CoordsX(box.points))) \div Sub
             y2 == Min2(img.rows * Sub, SetMax(CoordsY(box.points))) \div Sub
             cropped == WarpedSize(box)
         IN  IF DegenerateBox(x1, y1, x2, y2) THEN EmptyMat
             ELSE IF IsVertical(cropped) THEN Rotate90(cropped)
             ELSE cropped

\* lines 757-778: the TextLineResult of an accepted box
BoundsOf_First(box) ==
    [x1 |-> box.points[1].x, y1 |-> box.points[1].y,
     x2 |-> box.points[3].x, y2 |-> box.points[3].y]

BoundsOf(box) ==
    [x1 |-> SetMin(CoordsX(box.points)), y1 |-> SetMin(CoordsY(box.points)),
     x2 |-> SetMax(CoordsX(box.points)), y2 |-> SetMax(CoordsY(box.points))]

TextLineResult(box, text, score) ==
    [x1 |-> BoundsOf(box).x1, y1 |-> BoundsOf(box).y1,
     x2 |-> BoundsOf(box).x2, y2 |-> BoundsOf(box).y2,
     score |-> score, text |-> text]


\* ---- the calls of RecognizeText explored
\* a block taller than wide
Column == Paint(MapWidth, MapHeight, <<Layer(RectArea(2, 1, 5, 7), High)>>, 0)

\* a block taller than wide beside a block wider than tall
ColumnAndRow == Paint(MapWidth, MapHeight,
                      <<Layer(RectArea(0, 1, 3, 7), High), Layer(RectArea(6, 2, 11, 5), High)>>, 0)

\* a narrow block above a wide one
NarrowAndWide == Paint(MapWidth, MapHeight,
                       <<Layer(RectArea(0, 0, 3, 3), High), Layer(RectArea(5, 4, 11, 7), High)>>, 0)

\* the maps the detection model may return
DetTensors == {SingleBlock, Bridged, Tilted, Column, ColumnAndRow, NarrowAndWide, Specks}

OcrImages == {[cols |-> 32, rows |-> 32], [cols |-> 32, rows |-> 16],
              [cols |-> 16, rows |-> 32], [cols |-> 8, rows |-> 6],
              [cols |-> 8, rows |-> 32],
              [cols |-> 2000, rows |-> 1], [cols |-> 0, rows |-> 0]}

\* the pairs RecognizeRegion may get from CTCDecode
RecOutputs == {[text |-> "", score |-> 0], [text |-> "A", score |-> 900],
               [text |-> "AB", score |-> 400]}

RecThresholds == {(3 * Milli) \div 10, (5 * Milli) \div 10}

\* the polygons of the direct calls of CropTextRegion: 4 points inside and
\* outside the image, thinner than a pixel, and fewer or more than 4 points
Pt(x, y) == [x |-> x * Sub, y |-> y * Sub]
Poly(points) == [points |-> points, score |-> High]
CropProbes ==
    {Poly(<<Pt(2, 2), Pt(10, 2), Pt(10, 5), Pt(2, 5)>>),
     Poly(<<Pt(2, 2), Pt(4, 2), Pt(4, 12), Pt(2, 12)>>),
     Poly(<<Pt(3, 1), Pt(3, 1), Pt(3, 6), Pt(3, 6)>>),
     Poly(<<Pt(1, 4), Pt(9, 4), Pt(9, 4), Pt(1, 4)>>),
     Poly(<<[x |-> 7, y |-> 2], [x |-> 9, y |-> 2], [x |-> 9, y |-> 12], [x |-> 7, y |-> 12]>>),
     Poly(<<Pt(40, 2), Pt(50, 2), Pt(50, 8), Pt(40, 8)>>),
     Poly(<<Pt(-9, -7), Pt(-2, -7), Pt(-2, -3), Pt(-9, -3)>>),
     Poly(<<Pt(-4, -4), Pt(6, -4), Pt(6, 3), Pt(-4, 3)>>),
     Poly(<<Pt(2, 2), Pt(10, 2), Pt(10, 5)>>),
     Poly(<<Pt(2, 2), Pt(10, 2), Pt(10, 5), Pt(2, 5), Pt(1, 3)>>),
     Poly(<<>>)}

\* a call of RecognizeText, or a direct call of CropTextRegion
InitOCR ==
    /\ rec_outputs = <<>>
    /\ ocr_prev = [status |-> "none", rec_threshold |-> 0, results |-> <<>>]
    /\ ocr_image \in OcrImages
    /\ det_threshold \in DBThresholds
    /\ rec_threshold \in RecThresholds
    /\ det_blob = [width |-> 0, height |-> 0]
    /\ det_scale = [x |-> [num |-> 1, den |-> 1], y |-> [num |-> 1, den |-> 1]]
    /\ det_failed = "none"
    /\ box_idx = 0
    /\ ocr_regions = <<>>
    /\ ocr_events = <<>>
    /\ ocr_results = <<>>
    /\ \/ /\ ocr_pc = "start"
          /\ initialized_ \in BOOLEAN
          /\ det_tensor \in DetTensors
          /\ ocr_boxes = <<>>
       \/ /\ ocr_pc = "crop"
          /\ initialized_ = TRUE
          /\ det_tensor = <<>>
          /\ \E box \in CropProbes : ocr_boxes = <<box>>

\* CropTextRegion(image, box) called on its own
CropTextRegion_Call ==
    /\ ocr_pc = "crop"
    /\ ocr_regions' = <<CropTextRegion(ocr_image, ocr_boxes[1])>>
    /\ ocr_pc' = "cropped"
    /\ UNCHANGED <<initialized_, ocr_image, det_threshold, rec_threshold, det_tensor,
                   det_blob, det_scale, det_failed, ocr_boxes, box_idx, ocr_events,
                   ocr_results>>
    /\ UNCHANGED <<ctcVars, layVars, dbVars, thVars, preVars, engVars, relVars, recVars>>

OcrReady == initialized_ /\ ~ImageEmpty(ocr_image)

\* lines 703-711: the early returns of RecognizeText
RecognizeText_NotReady ==
    /\ ocr_pc = "start"
    /\ ~OcrReady
    /\ ocr_pc' = "done"
    /\ UNCHANGED <<initialized_, ocr_image, det_threshold, rec_threshold, det_tensor,
                   det_blob, det_scale, det_failed, ocr_boxes, box_idx, ocr_regions,
                   ocr_events, ocr_results>>
    /\ UNCHANGED <<ctcVars, layVars, dbVars, thVars, preVars, engVars, relVars, recVars>>

\* DetectText returned boxes: "if (boxes.empty()) return results;"
AfterDetect(pre, failed, boxes) ==
    /\ det_blob' = [width |-> pre.new_w, height |-> pre.new_h]
    /\ det_scale' = [x |-> pre.scale_x, y |-> pre.scale_y]
    /\ det_failed' = failed
    /\ ocr_boxes' = boxes
    /\ ocr_pc' = IF boxes = <<>> THEN "done" ELSE "loop"
    /\ UNCHANGED <<initialized_, ocr_image, det_threshold, rec_threshold, det_tensor,
                   box_idx, ocr_regions, ocr_events, ocr_results>>
    /\ UNCHANGED <<ctcVars, layVars, dbVars, thVars, preVars, engVars, relVars, recVars>>

\* cv::resize to a size with a zero side raises cv::Exception, caught at
\* line 628: DetectText returns no box
DetectText_ResizeThrows ==
    /\ ocr_pc = "start"
    /\ OcrReady
    /\ \E pre \in PreprocessForDetection(ocr_image) :
          /\ pre.new_w = 0 \/ pre.new_h = 0
          /\ AfterDetect(pre, "resize", <<>>)

\* det_session_->Run raises Ort::Exception, caught at line 626
DetectText_EngineFails ==
    /\ ocr_pc = "start"
    /\ OcrReady
    /\ \E pre \in PreprocessForDetection(ocr_image) :
          /\ pre.new_w > 0 /\ pre.new_h > 0
          /\ AfterDetect(pre, "engine", <<>>)

\* lines 612-622: the boxes of DBPostProcess on the tensor returned
DetectText_Ok ==
    /\ ocr_pc = "start"
    /\ OcrReady
    /\ \E pre \in PreprocessForDetection(ocr_image) :
          /\ pre.new_w > 0 /\ pre.new_h > 0
          /\ \E boxes \in DBPostProcess(det_tensor.data, det_tensor.height,
                                        det_tensor.width,
                                        [x |-> pre.scale_x, y |-> pre.scale_y],
                                        [width |-> ocr_image.cols, height |-> ocr_image.rows],
                                        det_threshold, DetectBoxThreshold) :
                AfterDetect(pre, "none", boxes)

\* one iteration of the loop over the boxes (lines 729-780) that ends in
\* the way event says, with the crop region
EndBox(region, event, out, pushed) ==
    /\ ocr_regions' = Append(ocr_regions, region)
    /\ rec_outputs' = Append(rec_outputs, out)
    /\ UNCHANGED ocr_prev
    /\ ocr_events' = Append(ocr_events, event)
    /\ ocr_results' = ocr_results \o pushed
    /\ box_idx' = box_idx + 1
    /\ UNCHANGED <<initialized_, ocr_image, det_threshold, rec_threshold, det_tensor,
                   det_blob, det_scale, det_failed, ocr_boxes, ocr_pc>>
    /\ UNCHANGED <<ctcVars, layVars, dbVars, thVars, preVars, engVars, relVars>>

InLoop == ocr_pc = "loop" /\ box_idx < Len(ocr_boxes)

\* lines 731-736: the crop is empty
RecognizeText_EmptyRegion ==
    /\ InLoop
    /\ CropTextRegion(ocr_image, ocr_boxes[box_idx + 1]) = EmptyMat
    /\ EndBox(EmptyMat, "empty_region", NoOutput, <<>>)

\* rec_session_->Run raises; RecognizeRegion catches it (lines 691-697) and
\* returns {"", 0.0f}, which RecognizeText takes for an empty text
RecognizeRegion_EngineFails ==
    /\ InLoop
    /\ CropTextRegion(ocr_image, ocr_boxes[box_idx + 1]) # EmptyMat
    /\ EndBox(CropTextRegion(ocr_image, ocr_boxes[box_idx + 1]), "engine_failed",
              NoOutput, <<>>)

\* line 751: if (score < rec_threshold)
LowScore_Never(score, threshold) == FALSE

LowScore(score, threshold) == score < threshold

\* lines 745-755: how the iteration ends for the pair RecognizeRegion returned
EventOf(out, threshold) ==
    IF out.text = "" THEN "empty_text"
    ELSE IF LowScore(out.score, threshold) THEN "low_score"
    ELSE "accepted"

\* lines 745-778: what the iteration pushes
LinesOf(box, out, threshold) ==
    IF EventOf(out, threshold) = "accepted"
    THEN <<TextLineResult(box, out.text, out.score)>>
    ELSE <<>>

\* lines 739-778: RecognizeRegion returned the pair of CTCDecode
RecognizeRegion_Ok ==
    /\ InLoop
    /\ CropTextRegion(ocr_image, ocr_boxes[box_idx + 1]) # EmptyMat
    /\ \E out \in RecOutputs :
          LET box == ocr_boxes[box_idx + 1]
              region == CropTextRegion(ocr_image, box)
          IN  EndBox(region, EventOf(out, rec_threshold), out,
                     LinesOf(box, out, rec_threshold))

\* line 790
RecognizeText_Return ==
    /\ ocr_pc = "loop"
    /\ box_idx = Len(ocr_boxes)
    /\ ocr_pc' = "done"
    /\ UNCHANGED <<initialized_, ocr_image, det_threshold, rec_threshold, det_tensor,
                   det_blob, det_scale, det_failed, ocr_boxes, box_idx, ocr_regions,
                   ocr_events, ocr_results>>
    /\ UNCHANGED <<ctcVars, layVars, dbVars, thVars, preVars, engVars, relVars, recVars>>

\* the events and the results of the loop of lines 729-780 run again with
\* another rec_threshold over the same boxes, crops and RecognizeRegion
\* pairs
EventsAgain(threshold) ==
    [i \in 1..Len(ocr_events) |->
        IF ocr_events[i] \in {"empty_region", "engine_failed"} THEN ocr_events[i]
        ELSE EventOf(rec_outputs[i], threshold)]

RECURSIVE ResultsAgain(_, _)
ResultsAgain(i, threshold) ==
    IF i = 0 THEN <<>>
    ELSE ResultsAgain(i - 1, threshold)
             \o (IF ocr_events[i] \in {"empty_region", "engine_failed"} THEN <<>>
                 ELSE LinesOf(ocr_boxes[i], rec_outputs[i], threshold))

\* RecognizeText called once more on the same image with another
\* rec_threshold; the detection and recognition models return what they
\* returned the first time
RecognizeText_Again ==
    /\ ocr_pc = "done"
    /\ ocr_prev.status = "none"
    /\ \E threshold \in RecThresholds :
          /\ rec_threshold' = threshold
          /\ ocr_events' = EventsAgain(threshold)
          /\ ocr_results' = ResultsAgain(Len(ocr_events), threshold)
    /\ ocr_prev' = [status |-> "done", rec_threshold |-> rec_threshold,
                    results |-> ocr_results]
    /\ UNCHANGED <<initialized_, ocr_image, det_threshold, det_tensor, det_blob,
                   det_scale, det_failed, ocr_boxes, box_idx, ocr_regions, ocr_pc,
                   rec_outputs>>
    /\ UNCHANGED <<ctcVars, layVars, dbVars, thVars, preVars, engVars, relVars>>

NextOCR ==
    \/ RecognizeText_Again
    \/ CropTextRegion_Call
    \/ RecognizeText_NotReady
    \/ DetectText_ResizeThrows
    \/ DetectText_EngineFails
    \/ DetectText_Ok
    \/ RecognizeText_EmptyRegion
    \/ RecognizeRegion_EngineFails
    \/ RecognizeRegion_Ok
    \/ RecognizeText_Return

StartOCR ==
    /\ InitOCR
    /\ OffCTC
    /\ OffLayout
    /\ OffDB
    /\ OffThreads
    /\ OffPre
    /\ OffEngine
    /\ OffRelease

SpecOCR == StartOCR /\ [][NextOCR]_vars

(***************************************************************************)
(* Concurrent calls of detectDocLayout (src/detect/doc_detector.cpp,       *)
(* src/native_lib.cpp).  Every call of detectLayout runs detectDocLayout   *)
(* on a thread of its own (std::async); initOnnxSession takes no lock, so  *)
(* its statements interleave with those of another call.                   *)
(***************************************************************************)
NumThreads == 2
MaxCallsPerThread == 2

Threads == 1..NumThreads

InitThreads ==
    /\ th_pc = [th \in Threads |-> "idle"]
    /\ th_calls = [th \in Threads |-> 0]
    /\ built = [env |-> 0, options |-> 0, session |-> 0]

\* a step of thread th to position pc that leaves the globals alone
Goto(th, pc) ==
    /\ th_pc' = [th_pc EXCEPT ![th] = pc]
    /\ UNCHANGED <<num_inputs, image, lay_output, conf_threshold, results,
                   emitted_rows, lay_status, prev_threshold, prev_results, prev_status>>
    /\ UNCHANGED <<ctcVars, dbVars, ocrVars, preVars, engVars, relVars, recVars>>

\* native_lib.cpp 38-48: a call arrives and reaches initOnnxSession
detectLayout_Call ==
    \E th \in Threads :
        /\ th_pc[th] = "idle"
        /\ th_calls[th] < MaxCallsPerThread
        /\ th_calls' = [th_calls EXCEPT ![th] = @ + 1]
        /\ Goto(th, "check")
        /\ UNCHANGED <<g_env, g_session_options, g_session, g_initialized, built>>

\* line 25: if (g_initialized) return
initOnnxSession_Check ==
    \E th \in Threads :
        /\ th_pc[th] = "check"
        /\ Goto(th, IF g_initialized THEN "use" ELSE "env")
        /\ UNCHANGED <<g_env, g_session_options, g_session, g_initialized, built, th_calls>>

\* line 33: g_env = new Ort::Env(...)
initOnnxSession_NewEnv ==
    \E th \in Threads :
        /\ th_pc[th] = "env"
        /\ g_env' = TRUE
        /\ built' = [built EXCEPT !.env = @ + 1]
        /\ Goto(th, "options")
        /\ UNCHANGED <<g_session_options, g_session, g_initialized, th_calls>>

\* lines 36-70: g_session_options = new Ort::SessionOptions() and its settings
initOnnxSession_NewOptions ==
    \E th \in Threads :
        /\ th_pc[th] = "options"
        /\ g_session_options' = TRUE
        /\ built' = [built EXCEPT !.options = @ + 1]
        /\ Goto(th, "session")
        /\ UNCHANGED <<g_env, g_session, g_initialized, th_calls>>

\* line 74: g_session = new Ort::Session(...)
initOnnxSession_NewSession ==
    \E th \in Threads :
        /\ th_pc[th] = "session"
        /\ g_session' = TRUE
        /\ built' = [built EXCEPT !.session = @ + 1]
        /\ Goto(th, "flag")
        /\ UNCHANGED <<g_env, g_session_options, g_initialized, th_calls>>

\* line 76: g_initialized = true
initOnnxSession_SetInitialized ==
    \E th \in Threads :
        /\ th_pc[th] = "flag"
        /\ g_initialized' = TRUE
        /\ Goto(th, "use")
        /\ UNCHANGED <<g_env, g_session_options, g_session, built, th_calls>>

\* lines 94-235: the rest of the call, which reads g_session
detectDocLayout_UseSession ==
    \E th \in Threads :
        /\ th_pc[th] = "use"
        /\ Goto(th, "idle")
        /\ UNCHANGED <<g_env, g_session_options, g_session, g_initialized, built, th_calls>>

NextThreads ==
    \/ detectLayout_Call
    \/ initOnnxSession_Check
    \/ initOnnxSession_NewEnv
    \/ initOnnxSession_NewOptions
    \/ initOnnxSession_NewSession
    \/ initOnnxSession_SetInitialized
    \/ detectDocLayout_UseSession

StartThreads ==
    /\ InitThreads
    /\ OffCTC
    /\ OffLayout
    /\ OffDB
    /\ OffOCR
    /\ OffPre
    /\ OffEngine
    /\ OffRelease
    /\ OffRec

SpecThreads == StartThreads /\ [][NextThreads]_vars

(***************************************************************************)
(* Calls of OcrEngine::PreprocessForDetection on images of every shape:    *)
(* below, at and above DET_MAX_SIDE, square, wide and tall.                *)
(***************************************************************************)
MaxImageSide == 2000

ImageSides == {1, 31, 32, 33, 480, 640, DET_MAX_SIDE - 1, DET_MAX_SIDE,
               DET_MAX_SIDE + 1, 1000, 1280, 1920, MaxImageSide}

PreImages == {[cols |-> w, rows |-> h] : w \in ImageSides, h \in ImageSides}

InitPre ==
    /\ pre_image \in PreImages
    /\ pre_sides = [width |-> 0, height |-> 0]
    /\ pre_new = [width |-> 0, height |-> 0]
    /\ pre_scale = [x |-> [num |-> 1, den |-> 1], y |-> [num |-> 1, den |-> 1]]
    /\ pre_pc = "start"

\* lines 187-206: the sizes and the scale factors the call computes
PreprocessForDetection_Call ==
    /\ pre_pc = "start"
    /\ \E pre \in PreprocessForDetection(pre_image) :
          /\ pre_sides' = [width |-> pre.pre_w, height |-> pre.pre_h]
          /\ pre_new' = [width |-> pre.new_w, height |-> pre.new_h]
          /\ pre_scale' = [x |-> pre.scale_x, y |-> pre.scale_y]
    /\ pre_pc' = "done"
    /\ UNCHANGED pre_image
    /\ UNCHANGED <<ctcVars, layVars, dbVars, ocrVars, thVars, engVars, relVars, recVars>>

NextPre ==
    \/ PreprocessForDetection_Call

StartPre ==
    /\ InitPre
    /\ OffCTC
    /\ OffLayout
    /\ OffDB
    /\ OffOCR
    /\ OffThreads
    /\ OffEngine
    /\ OffRelease
    /\ OffRec

SpecPre == StartPre /\ [][NextPre]_vars

(***************************************************************************)
(* OcrEngine::Init and OcrEngine::Release, and the guards of the entry     *)
(* points DetectText, RecognizeRegion, RecognizeText and of the exported   *)
(* recognizeTextFromPath, recognizeTextFromBuffer, detectTextFromPath      *)
(* (src/ocr/ocr_engine.cpp, src/native_lib.cpp).  Calls come one at a      *)
(* time.                                                                   *)
(***************************************************************************)
MaxEngineCalls == 4

DetModelPaths == {"det_a.onnx", "det_b.onnx"}
RecModelPaths == {"rec.onnx"}

\* new T(...): the object is added to those made so far
New(objects, kind, path) ==
    Append(objects, [kind |-> kind, path |-> path, deletes |-> 0])

\* if (p) { delete p; }
Delete(objects, p) ==
    IF p = 0 THEN objects ELSE [objects EXCEPT ![p].deletes = @ + 1]

\* the call that follows the latest one
Called(op) == [op |-> op, n |-> last_call.n + 1]

EngineFrame ==
    UNCHANGED <<ctcRest, ocrRest, layVars, dbVars, thVars, preVars, relVars, recVars>>

\* lines 41-65
Release ==
    /\ last_call.n < MaxEngineCalls
    /\ ort_objects' = Delete(Delete(Delete(Delete(Delete(ort_objects, det_session_),
                          rec_session_), det_session_options_), rec_session_options_),
                          env_)
    /\ det_session_' = 0
    /\ rec_session_' = 0
    /\ det_session_options_' = 0
    /\ rec_session_options_' = 0
    /\ env_' = 0
    /\ dictionary_' = <<>>
    /\ initialized_' = FALSE
    /\ last_call' = Called("Release")
    /\ EngineFrame

\* line 113: if (initialized_) return;
InitReturnsEarly_Never(init) == FALSE

InitReturnsEarly(init) == init

\* line 183 is reached when neither model load raised
ReachedEnd_Always(outcome) == TRUE

ReachedEnd(outcome) == outcome = "ok"

InitCall(det_model_path, rec_model_path, dict, outcome) ==
    [op |-> "Init", n |-> last_call.n + 1, det_model_path |-> det_model_path,
     rec_model_path |-> rec_model_path, dict |-> dict, outcome |-> outcome]

\* lines 113-116
Init_AlreadyInitialized ==
    /\ last_call.n < MaxEngineCalls
    /\ InitReturnsEarly(initialized_)
    /\ \E det \in DetModelPaths, rec \in RecModelPaths, dict \in DictFiles :
          last_call' = InitCall(det, rec, dict, "already")
    /\ UNCHANGED <<dictionary_, initialized_, env_, det_session_options_,
                   rec_session_options_, det_session_, rec_session_, ort_objects>>
    /\ EngineFrame

\* lines 118-183.  outcome is "ok", or which of the two new Ort::Session
\* raised: the statements after it are not executed.
InitBody(det_model_path, rec_model_path, dict, outcome) ==
    LET base == Len(ort_objects)
        made3 == New(New(New(ort_objects, "env", ""), "options", ""), "options", "")
        made4 == New(made3, "session", det_model_path)
        made5 == New(made4, "session", rec_model_path)
    IN  /\ last_call.n < MaxEngineCalls
        /\ ~InitReturnsEarly(initialized_)
        /\ dictionary_' = LoadDictionary(dictionary_, dict)
        /\ env_' = base + 1
        /\ det_session_options_' = base + 2
        /\ rec_session_options_' = base + 3
        /\ det_session_' = IF outcome = "det_throws" THEN det_session_ ELSE base + 4
        /\ rec_session_' = IF outcome = "ok" THEN base + 5 ELSE rec_session_
        /\ ort_objects' = IF outcome = "det_throws" THEN made3
                          ELSE IF outcome = "rec_throws" THEN made4
                          ELSE made5
        /\ initialized_' = (initialized_ \/ ReachedEnd(outcome))
        /\ last_call' = InitCall(det_model_path, rec_model_path, dict, outcome)
        /\ EngineFrame

Init_Ok ==
    /\ last_call.n < MaxEngineCalls
    /\ \E det \in DetModelPaths, rec \in RecModelPaths, dict \in DictFiles :
              InitBody(det, rec, dict, "ok")

\* new Ort::Session(*env_, det_model_path, ...) raises Ort::Exception
Init_DetLoadThrows ==
    /\ last_call.n < MaxEngineCalls
    /\ \E det \in DetModelPaths, rec \in RecModelPaths, dict \in DictFiles :
              InitBody(det, rec, dict, "det_throws")

\* new Ort::Session(*env_, rec_model_path, ...) raises Ort::Exception
Init_RecLoadThrows ==
    /\ last_call.n < MaxEngineCalls
    /\ \E det \in DetModelPaths, rec \in RecModelPaths, dict \in DictFiles :
              InitBody(det, rec, dict, "rec_throws")

\* ---- the entry points: what they return and whether a session ran
\* line 562: if (!initialized_ || !det_session_)
DetectNotReady_SessionOnly(init, session) == session = 0

DetectNotReady(init, session) == ~init \/ session = 0

\* line 636: if (!initialized_ || !rec_session_)
RecognizeNotReady(init, session) == ~init \/ session = 0

Returned(ret, ran_session, called_engine) ==
    [ret |-> ret, ran_session |-> ran_session, called_engine |-> called_engine]

\* lines 559-633
DetectText(init, session, image_empty) ==
    IF DetectNotReady(init, session) THEN Returned("no_boxes", FALSE, TRUE)
    ELSE IF image_empty THEN Returned("no_boxes", FALSE, TRUE)
    ELSE Returned("boxes", TRUE, TRUE)

\* lines 635-698
RecognizeRegion(init, session, region_empty) ==
    IF RecognizeNotReady(init, session) THEN Returned("empty_pair", FALSE, TRUE)
    ELSE IF region_empty THEN Returned("empty_pair", FALSE, TRUE)
    ELSE Returned("pair", TRUE, TRUE)

\* lines 700-791: the guards, then DetectText
RecognizeText(init, session, image_empty) ==
    IF ~init THEN Returned("no_lines", FALSE, TRUE)
    ELSE IF image_empty THEN Returned("no_lines", FALSE, TRUE)
    ELSE IF DetectText(init, session, image_empty).ret = "no_boxes"
         THEN Returned("no_lines", DetectText(init, session, image_empty).ran_session, TRUE)
    ELSE Returned("lines", TRUE, TRUE)

\* native_lib.cpp lines 125-135, 194-203: image check, IsInitialized(),
\* then RecognizeText
recognizeTextExport(init, session, image_empty) ==
    IF image_empty THEN Returned("IMAGE_ERROR", FALSE, FALSE)
    ELSE IF ~init THEN Returned("ENGINE_NOT_INITIALIZED", FALSE, FALSE)
    ELSE Returned("results", RecognizeText(init, session, image_empty).ran_session, TRUE)

\* native_lib.cpp lines 255-264
detectTextFromPath(init, session, image_empty) ==
    IF image_empty THEN Returned("IMAGE_ERROR", FALSE, FALSE)
    ELSE IF ~init THEN Returned("ENGINE_NOT_INITIALIZED", FALSE, FALSE)
    ELSE Returned("boxes", DetectText(init, session, image_empty).ran_session, TRUE)

\* a call that leaves the members alone
EntryPoint(op, returned, image_empty) ==
    /\ last_call.n < MaxEngineCalls
    /\ last_call' = [op |-> op, n |-> last_call.n + 1, image_empty |-> image_empty,
                     returned |-> returned]
    /\ UNCHANGED <<dictionary_, initialized_, env_, det_session_options_,
                   rec_session_options_, det_session_, rec_session_, ort_objects>>
    /\ EngineFrame

DetectText_Call ==
    /\ last_call.n < MaxEngineCalls
    /\ \E image_empty \in BOOLEAN :
              EntryPoint("DetectText", DetectText(initialized_, det_session_, image_empty),
                         image_empty)

RecognizeRegion_Call ==
    /\ last_call.n < MaxEngineCalls
    /\ \E region_empty \in BOOLEAN :
              EntryPoint("RecognizeRegion",
                         RecognizeRegion(initialized_, rec_session_, region_empty), region_empty)

RecognizeText_Call ==
    /\ last_call.n < MaxEngineCalls
    /\ \E image_empty \in BOOLEAN :
              EntryPoint("RecognizeText",
                         RecognizeText(initialized_, det_session_, image_empty), image_empty)

recognizeTextFromPath_Call ==
    /\ last_call.n < MaxEngineCalls
    /\ \E image_empty \in BOOLEAN :
              EntryPoint("recognizeTextFromPath",
                         recognizeTextExport(initialized_, det_session_, image_empty), image_empty)

recognizeTextFromBuffer_Call ==
    /\ last_call.n < MaxEngineCalls
    /\ \E image_empty \in BOOLEAN :
              EntryPoint("recognizeTextFromBuffer",
                         recognizeTextExport(initialized_, det_session_, image_empty), image_empty)

detectTextFromPath_Call ==
    /\ last_call.n < MaxEngineCalls
    /\ \E image_empty \in BOOLEAN :
              EntryPoint("detectTextFromPath",
                         detectTextFromPath(initialized_, det_session_, image_empty), image_empty)

\* the engine as constructed: the member initializers of ocr_engine.h
InitEngine ==
    /\ dictionary_ = <<>>
    /\ initialized_ = FALSE
    /\ env_ = 0
    /\ det_session_options_ = 0
    /\ rec_session_options_ = 0
    /\ det_session_ = 0
    /\ rec_session_ = 0
    /\ ort_objects = <<>>
    /\ last_call = NoEngineCall

NextEngine ==
    \/ Init_AlreadyInitialized
    \/ Init_Ok
    \/ Init_DetLoadThrows
    \/ Init_RecLoadThrows
    \/ Release
    \/ DetectText_Call
    \/ RecognizeRegion_Call
    \/ RecognizeText_Call
    \/ recognizeTextFromPath_Call
    \/ recognizeTextFromBuffer_Call
    \/ detectTextFromPath_Call

StartEngine ==
    /\ InitEngine
    /\ OffCTC
    /\ OffLayout
    /\ OffDB
    /\ OffOCR
    /\ OffThreads
    /\ OffPre
    /\ OffRelease
    /\ OffRec

SpecEngine == StartEngine /\ [][NextEngine]_vars

(***************************************************************************)
(* releaseOcrEngine on one thread while another thread is inside           *)
(* RecognizeText, DetectText or RecognizeRegion.  No statement of either   *)
(* function takes a lock, so the statements interleave freely.             *)
(***************************************************************************)
MaxBoxes == 2

ReleaseFrame ==
    UNCHANGED <<ctcRest, ocrRest, layVars, dbVars, thVars, preVars, last_call, recVars>>

At(op, at, session) == [op |-> op, at |-> at, session |-> session]

\* no CTCDecode call and no RecognizeText call is modelled
OffCtcCall ==
    /\ ctc_pc = "off"
    /\ output_data = <<>>
    /\ need_softmax = FALSE
    /\ oob_read = FALSE
    /\ t = 0
    /\ result = ""
    /\ total_score = 0
    /\ char_count = 0
    /\ prev_idx = -1
    /\ blank_count = 0
    /\ avg_score = 0

OffOcrCall ==
    /\ ocr_image = [cols |-> 0, rows |-> 0]
    /\ det_threshold = 0
    /\ rec_threshold = 0
    /\ det_tensor = <<>>
    /\ det_blob = [width |-> 0, height |-> 0]
    /\ det_scale = [x |-> [num |-> 1, den |-> 1], y |-> [num |-> 1, den |-> 1]]
    /\ det_failed = "none"
    /\ ocr_boxes = <<>>
    /\ box_idx = 0
    /\ ocr_regions = <<>>
    /\ ocr_events = <<>>
    /\ ocr_results = <<>>
    /\ ocr_pc = "off"

\* an engine on which Init has succeeded
InitRelease ==
    /\ dictionary_ = LoadDictionary(<<>>, DictFile(<<"B", "A">>))
    /\ initialized_ = TRUE
    /\ env_ = 1
    /\ det_session_options_ = 2
    /\ rec_session_options_ = 3
    /\ det_session_ = 4
    /\ rec_session_ = 5
    /\ ort_objects = New(New(New(New(New(<<>>, "env", ""), "options", ""), "options", ""),
                             "session", "det_a.onnx"), "session", "rec.onnx")
    /\ last_call = NoEngineCall
    /\ rel_pc = "idle"
    /\ work_pc = At("none", "idle", 0)
    /\ work_left = 0
    /\ hazards = {}

\* ---- the releasing thread
ReleaseStep(from, to) ==
    /\ rel_pc = from
    /\ rel_pc' = to
    /\ UNCHANGED <<work_pc, work_left, hazards>>
    /\ ReleaseFrame

\* native_lib.cpp line 115
releaseOcrEngine_Call ==
    /\ ReleaseStep("idle", "det_session")
    /\ UNCHANGED <<dictionary_, initialized_, env_, det_session_options_,
                   rec_session_options_, det_session_, rec_session_, ort_objects>>

\* lines 42-45
Release_DetSession ==
    /\ ReleaseStep("det_session", "rec_session")
    /\ ort_objects' = Delete(ort_objects, det_session_)
    /\ det_session_' = 0
    /\ UNCHANGED <<dictionary_, initialized_, env_, det_session_options_,
                   rec_session_options_, rec_session_>>

\* lines 46-49
Release_RecSession ==
    /\ ReleaseStep("rec_session", "options")
    /\ ort_objects' = Delete(ort_objects, rec_session_)
    /\ rec_session_' = 0
    /\ UNCHANGED <<dictionary_, initialized_, env_, det_session_options_,
                   rec_session_options_, det_session_>>

\* lines 50-61
Release_OptionsAndEnv ==
    /\ ReleaseStep("options", "dictionary")
    /\ ort_objects' = Delete(Delete(Delete(ort_objects, det_session_options_),
                                    rec_session_options_), env_)
    /\ det_session_options_' = 0
    /\ rec_session_options_' = 0
    /\ env_' = 0
    /\ UNCHANGED <<dictionary_, initialized_, det_session_, rec_session_>>

\* line 62
Release_ClearDictionary ==
    /\ ReleaseStep("dictionary", "flag")
    /\ dictionary_' = <<>>
    /\ UNCHANGED <<initialized_, env_, det_session_options_, rec_session_options_,
                   det_session_, rec_session_, ort_objects>>

\* line 63
Release_ResetFlag ==
    /\ ReleaseStep("flag", "done")
    /\ initialized_' = FALSE
    /\ UNCHANGED <<dictionary_, env_, det_session_options_, rec_session_options_,
                   det_session_, rec_session_, ort_objects>>

\* ---- the thread inside the engine
WorkStep(to, left, hazard) ==
    /\ work_pc' = to
    /\ work_left' = left
    /\ hazards' = hazards \cup hazard
    /\ UNCHANGED <<dictionary_, initialized_, env_, det_session_options_,
                   rec_session_options_, det_session_, rec_session_, ort_objects, rel_pc>>
    /\ ReleaseFrame

\* the use of the object p points to: a null pointer is dereferenced, or
\* the object was deleted
UseOf(p, what) ==
    IF p = 0 THEN {what \o " is null"}
    ELSE IF ort_objects[p].deletes > 0 THEN {what \o " was deleted"}
    ELSE {}

\* lines 703-706: RecognizeText tests initialized_
RecognizeText_Enter ==
    /\ work_pc.at = "idle"
    /\ IF ~initialized_ THEN WorkStep(At("RecognizeText", "done", 0), 0, {})
       ELSE WorkStep(At("RecognizeText", "detect_guard", 0), 0, {})

\* a direct call of DetectText
DetectText_Enter ==
    /\ work_pc.at = "idle"
    /\ WorkStep(At("DetectText", "detect_guard", 0), 0, {})

\* lines 562-565
DetectText_Guard ==
    /\ work_pc.at = "detect_guard"
    /\ IF DetectNotReady(initialized_, det_session_)
       THEN WorkStep(At(work_pc.op, "done", 0), 0, {})
       ELSE WorkStep(At(work_pc.op, "det_run", 0), 0, {})

\* line 602: det_session_->Run is entered with the pointer read now
DetectText_RunBegin ==
    /\ work_pc.at = "det_run"
    /\ WorkStep(At(work_pc.op, "det_running", det_session_), 0,
                UseOf(det_session_, "det_session_"))

\* Run returns; RecognizeText goes on with the boxes found (lines 718-729)
DetectText_RunEnd ==
    /\ work_pc.at = "det_running"
    /\ \E boxes \in 0..MaxBoxes :
          WorkStep(At(work_pc.op,
                      IF work_pc.op = "RecognizeText" /\ boxes > 0 THEN "rec_guard"
                      ELSE "done", 0),
                   IF work_pc.op = "RecognizeText" THEN boxes ELSE 0,
                   UseOf(work_pc.session, "det_session_"))

\* a direct call of RecognizeRegion
RecognizeRegion_Enter ==
    /\ work_pc.at = "idle"
    /\ WorkStep(At("RecognizeRegion", "rec_guard", 0), 1, {})

\* after a box: the next one, or the return
AfterBox == IF work_left > 1 THEN "rec_guard" ELSE "done"

\* lines 636-639
RecognizeRegion_Guard ==
    /\ work_pc.at = "rec_guard"
    /\ IF RecognizeNotReady(initialized_, rec_session_)
       THEN WorkStep(At(work_pc.op, AfterBox, 0), work_left - 1, {})
       ELSE WorkStep(At(work_pc.op, "rec_run", 0), work_left, {})

\* line 672: rec_session_->Run is entered with the pointer read now
RecognizeRegion_RunBegin ==
    /\ work_pc.at = "rec_run"
    /\ WorkStep(At(work_pc.op, "rec_running", rec_session_), work_left,
                UseOf(rec_session_, "rec_session_"))

RecognizeRegion_RunEnd ==
    /\ work_pc.at = "rec_running"
    /\ WorkStep(At(work_pc.op, "decode", 0), work_left,
                UseOf(work_pc.session, "rec_session_"))

\* line 689: CTCDecode reads dictionary_
RecognizeRegion_Decode ==
    /\ work_pc.at = "decode"
    /\ WorkStep(At(work_pc.op, AfterBox, 0), work_left - 1,
                IF rel_pc \in {"flag", "done"} THEN {"dictionary_ was cleared"} ELSE {})

NextRelease ==
    \/ releaseOcrEngine_Call
    \/ Release_DetSession
    \/ Release_RecSession
    \/ Release_OptionsAndEnv
    \/ Release_ClearDictionary
    \/ Release_ResetFlag
    \/ RecognizeText_Enter
    \/ DetectText_Enter
    \/ DetectText_Guard
    \/ DetectText_RunBegin
    \/ DetectText_RunEnd
    \/ RecognizeRegion_Enter
    \/ RecognizeRegion_Guard
    \/ RecognizeRegion_RunBegin
    \/ RecognizeRegion_RunEnd
    \/ RecognizeRegion_Decode

StartRelease ==
    /\ InitRelease
    /\ OffCtcCall
    /\ OffOcrCall
    /\ OffLayout
    /\ OffDB
    /\ OffThreads
    /\ OffPre
    /\ OffRec

SpecRelease == StartRelease /\ [][NextRelease]_vars

(***************************************************************************)
(* Properties of CTCDecode (checked under SpecCTC).                        *)
(***************************************************************************)
SeqLen == Len(output_data)
\* raw argmax index and its probability at every timestep (1-based here)
RawSeq ==
    [i \in 1..SeqLen |->
        LET probs == Probs(output_data[i], need_softmax)
            idx == ArgMax(probs)
        IN  [idx |-> idx, val |-> probs[idx]]]
RawIdxSeq == [i \in 1..SeqLen |-> RawSeq[i].idx]
\* the emission rule as the specification states it, on the raw sequence
RuleEmits(raw, i) == raw[i].idx # 0 /\ (i = 1 \/ raw[i].idx # raw[i - 1].idx)
InDict(raw, i) == raw[i].idx < Len(dictionary_)
DictCovers == Len(dictionary_) >= NumVocab

RECURSIVE RuleText(_, _)
RuleText(raw, n) ==
    IF n = 0 THEN ""
    ELSE RuleText(raw, n - 1)
            \o (IF RuleEmits(raw, n) THEN DictAt(dictionary_, raw[n].idx) ELSE "")

\* C1: with a dictionary covering every index, after k timesteps the decoded
\* string is the concatenation, in timestep order, of the tokens of exactly
\* the timesteps i <= k with a[i] # 0 and (i first or a[i] # a[i-1]), one
\* count per such timestep; and [0,5,5,0,5] with token 5 = "A" gives "AA".
C1_EmissionRule ==
    (ctc_pc \in {"loop", "done"} /\ DictCovers) =>
        LET raw == RawSeq
        IN  /\ result = RuleText(raw, t)
            /\ char_count = Cardinality({i \in 1..t : RuleEmits(raw, i)})
            /\ (ctc_pc = "done" /\ [i \in 1..SeqLen |-> raw[i].idx] = <<0, 5, 5, 0, 5>>
                  /\ DictAt(dictionary_, 5) = "A") => result = "AA"

C1_Witness ==
    /\ ctc_pc = "done"
    /\ DictCovers
    /\ RawIdxSeq = <<0, 5, 5, 0, 5>>
    /\ DictAt(dictionary_, 5) = "A"
    /\ result = "AA"

\* C2: a call whose every timestep has argmax 0 (at least one timestep)
\* returns the empty string and confidence 0.0.
C2_AllBlank ==
    (ctc_pc = "done" /\ SeqLen >= 1 /\ \A i \in 1..SeqLen : RawSeq[i].idx = 0) =>
        (result = "" /\ avg_score = 0)

C2_Witness ==
    /\ ctc_pc = "done"
    /\ SeqLen = MaxSeqLen
    /\ Len(dictionary_) > 0
    /\ \A i \in 1..SeqLen : RawSeq[i].idx = 0
    /\ result = ""
    /\ avg_score = 0

\* the timesteps that emit: rule satisfied and index inside the dictionary
Emitted(raw) == {i \in 1..SeqLen : RuleEmits(raw, i) /\ InDict(raw, i)}
EmittedSum(raw, E) == SumSeq([i \in 1..SeqLen |-> IF i \in E THEN raw[i].val ELSE 0])

\* C3: the returned confidence is the sum of the argmax probabilities of
\* exactly the emitted timesteps divided by their number, and 0.0 when no
\* timestep emitted; blank, repeated and out-of-range timesteps add nothing.
C3_Confidence ==
    ctc_pc = "done" =>
        LET raw == RawSeq
            E == Emitted(raw)
            sum == EmittedSum(raw, E)
        IN  /\ char_count = Cardinality(E)
            /\ total_score = sum
            /\ avg_score = IF E = {} THEN 0 ELSE sum \div Cardinality(E)

C3_Witness ==
    /\ ctc_pc = "done"
    /\ LET raw == RawSeq
           E == Emitted(raw)
       IN  /\ Cardinality(E) = 2
           /\ \E i, j \in E : raw[i].val # raw[j].val
           /\ \E i \in 1..SeqLen : raw[i].idx = 0
           /\ \E i \in 2..SeqLen : raw[i].idx # 0 /\ raw[i].idx = raw[i - 1].idx
           /\ \E i \in 1..SeqLen : RuleEmits(raw, i) /\ ~InDict(raw, i)
           /\ avg_score * 2 = EmittedSum(raw, E)

(***************************************************************************)
(* Properties of detectDocLayout (checked under SpecLayout).               *)
(***************************************************************************)
RowIndices == [i \in 1..Len(lay_output) |-> i]
\* the rows the specification keeps: score >= threshold and 0 <= classId < 23
SpecKeeps(i) ==
    /\ lay_output[i].score >= conf_threshold
    /\ 0 <= TruncToInt(lay_output[i].cls)
    /\ TruncToInt(lay_output[i].cls) < 23
BoundX == image.cols * TargetWidth
BoundY == image.rows * TargetHeight

\* C4: a call that reaches post-processing emits exactly the rows with
\* score >= threshold and 0 <= classId < 23, in their original order, each
\* with the class name of the class table at its class id.
C4_ExactFilter ==
    lay_status = "ok" =>
        LET kept == SelectSeq(RowIndices, SpecKeeps)
        IN  /\ emitted_rows = kept
            /\ Len(results) = Len(kept)
            /\ \A k \in 1..Len(kept) :
                  /\ results[k].class_id = TruncToInt(lay_output[kept[k]].cls)
                  /\ results[k].score = lay_output[kept[k]].score
                  /\ results[k].class_name = DOC_CLASSES[results[k].class_id + 1]

C4_Witness ==
    /\ lay_status = "ok"
    /\ Len(lay_output) = 3
    /\ emitted_rows = <<1, 3>>
    /\ lay_output[2].score >= conf_threshold
    /\ results[1].class_name = "text"
    /\ results[2].class_name = "paragraph_title"

\* C5 (as claimed): every emitted Detection has 0 <= x1 <= x2 <= width and
\* 0 <= y1 <= y2 <= height, whatever the raw row.
C5_OrderedBounds ==
    lay_status = "ok" =>
        \A k \in 1..Len(results) :
            /\ 0 <= results[k].x1 /\ results[k].x1 <= results[k].x2
            /\ results[k].x2 <= BoundX
            /\ 0 <= results[k].y1 /\ results[k].y1 <= results[k].y2
            /\ results[k].y2 <= BoundY

\* what the L variant emits for the same tensor, image and threshold
LVariantBoxes == PostProcessLayout(lay_output, image, 3, conf_threshold).boxes
ScaleIsTwo == image.cols * 2 = TargetWidth /\ image.rows * 2 = TargetHeight

\* C6 (as claimed): an M call with scale factor (2,2) emits, for every row,
\* coordinates that are half of those of an L call on the same row.
C6_HalfOfL ==
    (lay_status = "ok" /\ num_inputs = 2 /\ ScaleIsTwo) =>
        \A k \in 1..Len(results) :
            /\ 2 * results[k].x1 = LVariantBoxes[k].x1
            /\ 2 * results[k].y1 = LVariantBoxes[k].y1
            /\ 2 * results[k].x2 = LVariantBoxes[k].x2
            /\ 2 * results[k].y2 = LVariantBoxes[k].y2

\* the coordinate the specification prescribes: raw for L (3 inputs), raw
\* divided by the scale factor target/dim otherwise, then clamped
SpecCoord(raw, dim, target) ==
    Clamp(IF num_inputs = 3 THEN raw * target ELSE (raw * dim * target) \div target,
          dim * target)

\* C6 (amended): L exactly when the model has 3 inputs; L clamps the raw
\* coordinate, M clamps raw / scale factor; with scale factor (2,2) the M
\* coordinate is half of the L one for every raw coordinate not beyond the
\* image's width / height (where the L call does not clamp from above).
C6_Scaling ==
    lay_status = "ok" =>
        \A k \in 1..Len(results) :
            LET row == lay_output[emitted_rows[k]]
                l == LVariantBoxes[k]
            IN  /\ results[k].x1 = SpecCoord(row.x1, image.cols, TargetWidth)
                /\ results[k].y1 = SpecCoord(row.y1, image.rows, TargetHeight)
                /\ results[k].x2 = SpecCoord(row.x2, image.cols, TargetWidth)
                /\ results[k].y2 = SpecCoord(row.y2, image.rows, TargetHeight)
                /\ (num_inputs = 2 /\ ScaleIsTwo) =>
                      /\ row.x1 <= image.cols => 2 * results[k].x1 = l.x1
                      /\ row.y1 <= image.rows => 2 * results[k].y1 = l.y1
                      /\ row.x2 <= image.cols => 2 * results[k].x2 = l.x2
                      /\ row.y2 <= image.rows => 2 * results[k].y2 = l.y2

C6_Witness ==
    /\ lay_status = "ok"
    /\ num_inputs = 2
    /\ ScaleIsTwo
    /\ Len(results) >= 1
    /\ lay_output[emitted_rows[1]].x2 <= image.cols
    /\ results[1].x2 > 0
    /\ 2 * results[1].x2 = LVariantBoxes[1].x2
    /\ LVariantBoxes[1].x2 < BoundX

\* a is a subsequence of b
IsSubseq(a, b) ==
    \E f \in [1..Len(a) -> 1..Len(b)] :
        /\ \A i, j \in 1..Len(a) : i < j => f[i] < f[j]
        /\ \A i \in 1..Len(a) : a[i] = b[f[i]]

\* C7: two calls on the same tensor that both reach post-processing: the
\* Detections of the call with the higher threshold are a subsequence of
\* those of the call with the lower threshold.
C7_LayoutMonotone ==
    (lay_status = "ok" /\ prev_status = "ok") =>
        /\ prev_threshold <= conf_threshold => IsSubseq(results, prev_results)
        /\ conf_threshold <= prev_threshold => IsSubseq(prev_results, results)

C7_Witness ==
    /\ lay_status = "ok"
    /\ prev_status = "ok"
    /\ prev_threshold < conf_threshold
    /\ Len(results) >= 1
    /\ Len(prev_results) > Len(results)
    /\ IsSubseq(results, prev_results)

(***************************************************************************)
(* Properties of DBPostProcess (checked under SpecDB).                     *)
(***************************************************************************)
\* two successive calls as DetectText makes them, on the same map
TwoDetectCalls ==
    /\ db_status = "done"
    /\ db_prev.status = "done"
    /\ db_box_threshold = DetectBoxThreshold
    /\ db_prev.box_threshold = DetectBoxThreshold

PointSet(box) == {box.points[k] : k \in 1..Len(box.points)}
PolygonsOf(boxes) == {PointSet(boxes[i]) : i \in 1..Len(boxes)}
RegionSet(mask) == {Regions(mask)[i] : i \in 1..Len(Regions(mask))}

\* C8 as stated: for the same probability map and thresholds t1 <= t2
\* given to DetectText, every polygon emitted at t2 is also emitted at t1.
\* db_prev is the call at t1, the latest call the one at t2.  Violated.
C8_PolygonMonotone ==
    (TwoDetectCalls /\ db_prev.threshold <= db_threshold)
        => PolygonsOf(db_boxes) \subseteq PolygonsOf(db_prev.boxes)

\* C8, amended: for the same probability map and thresholds t1 <= t2 given
\* to DetectText, every foreground pixel of the binarized map at t2 is a
\* foreground pixel at t1, and every connected region at t2 lies inside a
\* connected region at t1.
C8_RegionMonotone ==
    (TwoDetectCalls /\ db_prev.threshold <= db_threshold)
        => /\ db_binary \subseteq db_prev.binary
           /\ \A r2 \in RegionSet(db_binary) :
                  \E r1 \in RegionSet(db_prev.binary) : r2 \subseteq r1

\* the threshold was raised, the foreground shrank, and a polygon of the
\* higher threshold is not among those of the lower one
C8_Witness ==
    /\ TwoDetectCalls
    /\ db_prev.threshold < db_threshold
    /\ db_binary # db_prev.binary
    /\ db_boxes # <<>>
    /\ ~(PolygonsOf(db_boxes) \subseteq PolygonsOf(db_prev.boxes))

\* a call with threshold 0.5, box threshold 0.5, scale factors (1,1)
\* and the original dimensions of the map
PlainCall ==
    /\ db_status = "done"
    /\ db_threshold = (5 * Milli) \div 10
    /\ db_box_threshold = (5 * Milli) \div 10
    /\ db_scale = [x |-> Ratio(1, 1), y |-> Ratio(1, 1)]
    /\ db_orig = [width |-> db_width, height |-> db_height]

\* the map is 0 except for one rectangular block of values > 0.9
OneBlock(x0, y0, x1, y1) ==
    \A p \in DOMAIN db_map :
        IF p \in RectArea(x0, y0, x1, y1) THEN db_map[p] > (9 * Milli) \div 10
        ELSE db_map[p] = 0

\* the polygon spans exactly the block (x0,y0)-(x1,y1)
ExtentIs(box, x0, y0, x1, y1) ==
    /\ \A pt \in PointSet(box) : pt.x \in {x0 * Sub, x1 * Sub} /\ pt.y \in {y0 * Sub, y1 * Sub}
    /\ \E pt \in PointSet(box) : pt.x = x0 * Sub /\ pt.y = y0 * Sub
    /\ \E pt \in PointSet(box) : pt.x = x1 * Sub /\ pt.y = y1 * Sub

SmallBlobCall ==
    PlainCall /\ db_width = 4 /\ db_height = 4 /\ OneBlock(1, 1, 2, 2)

\* C9 as stated: for the 4x4 map with a 2x2 block at (1,1)-(2,2),
\* threshold 0.5, box threshold 0.5, scale factors (1,1) and original
\* dimensions 4x4, DBPostProcess returns exactly one polygon whose extent
\* matches the block.  Violated.
C9_OnePolygon ==
    SmallBlobCall => Len(db_boxes) = 1 /\ ExtentIs(db_boxes[1], 1, 1, 2, 2)

\* C9, amended: with threshold 0.5, box threshold 0.5, scale factors (1,1)
\* and the original dimensions of the map, a map that is 0 except for one
\* rectangular block of values > 0.9 yields no polygon when the block spans
\* fewer than 3 pixels between its outer pixel centres in either direction
\* (the 2x2 block of the 4x4 map spans 1), and otherwise exactly one
\* polygon whose extent matches the block.
C9_SingleBlob ==
    \A x0, x1 \in 0..(db_width - 1), y0, y1 \in 0..(db_height - 1) :
        (PlainCall /\ x0 < x1 /\ y0 < y1 /\ OneBlock(x0, y0, x1, y1))
            => IF Min2(x1 - x0, y1 - y0) < 3
               THEN db_boxes = <<>>
               ELSE Len(db_boxes) = 1 /\ ExtentIs(db_boxes[1], x0, y0, x1, y1)

\* the scenario of the claim has been decoded
C9_Witness == SmallBlobCall /\ db_boxes = <<>>

\* C10: every polygon emitted by DBPostProcess has exactly 4 points p0..p3;
\* p0 and p1 carry the two smallest y-values with p0.x <= p1.x, p2 and p3
\* the two largest with p2.x >= p3.x.
C10_PointOrder ==
    db_status = "done" =>
        \A i \in 1..Len(db_boxes) :
            LET p == db_boxes[i].points
            IN  /\ Len(p) = 4
                /\ Max2(p[1].y, p[2].y) <= Min2(p[3].y, p[4].y)
                /\ p[1].x <= p[2].x
                /\ p[3].x >= p[4].x

\* a polygon of a rotated rectangle whose corners were clamped onto the
\* same y, so that the order of its points after the sort is not determined
C10_Witness ==
    /\ db_status = "done"
    /\ db_orig.height < db_height
    /\ \E i \in 1..Len(db_boxes) :
           LET p == db_boxes[i].points
           IN  /\ p[2].y = p[3].y
               /\ p[3].y = p[4].y
               /\ p[1].y < p[2].y
               /\ p[2].x # p[3].x

(***************************************************************************)
(* Properties of RecognizeText (checked under SpecOCR).                    *)
(***************************************************************************)
\* the indices (1-based) of the boxes whose iteration pushed a TextLine
AcceptedIdx == SelectSeq([i \in 1..Len(ocr_events) |-> i],
                         LAMBDA i : ocr_events[i] = "accepted")

\* C11: every TextLine returned by RecognizeText has a rectangle equal to
\* the extrema of the four points of its source polygon, and
\* 0 <= x1 <= x2 <= width, 0 <= y1 <= y2 <= height of the original image.
C11_TextLineBounds ==
    /\ Len(ocr_results) = Len(AcceptedIdx)
    /\ \A k \in 1..Len(ocr_results) :
          LET r == ocr_results[k]
              pts == ocr_boxes[AcceptedIdx[k]].points
              K == 1..Len(pts)
          IN  /\ Len(pts) = 4
              /\ \A j \in K : r.x1 <= pts[j].x /\ pts[j].x <= r.x2
              /\ \A j \in K : r.y1 <= pts[j].y /\ pts[j].y <= r.y2
              /\ \E j \in K : r.x1 = pts[j].x
              /\ \E j \in K : r.x2 = pts[j].x
              /\ \E j \in K : r.y1 = pts[j].y
              /\ \E j \in K : r.y2 = pts[j].y
              /\ 0 <= r.x1 /\ r.x1 <= r.x2 /\ r.x2 <= ocr_image.cols * Sub
              /\ 0 <= r.y1 /\ r.y1 <= r.y2 /\ r.y2 <= ocr_image.rows * Sub

\* a call has returned a TextLine of a rotated polygon, whose first point
\* is not its leftmost
C11_Witness ==
    /\ ocr_pc = "done"
    /\ \E k \in 1..Len(ocr_results) :
          /\ ocr_results[k].x1 < ocr_boxes[AcceptedIdx[k]].points[1].x
          /\ ocr_results[k].x1 < ocr_results[k].x2
          /\ ocr_results[k].y1 < ocr_results[k].y2

EngineFailed ==
    \/ det_failed = "engine"
    \/ \E i \in 1..Len(ocr_events) : ocr_events[i] = "engine_failed"

\* C13: if the inference engine fails at any point during a RecognizeText
\* call, the call returns an empty result set.  Violated: a failure while
\* one polygon is recognized only skips that polygon.
C13_FailureEmpties ==
    (ocr_pc = "done" /\ EngineFailed) => ocr_results = <<>>

(***************************************************************************)
(* Properties of concurrent detectDocLayout calls (under SpecThreads).     *)
(***************************************************************************)
\* C14: under every interleaving of two concurrent detectDocLayout calls
\* the ONNX environment, the session options and the session are each
\* constructed exactly once, and no call uses a session that is not
\* constructed.  Violated: both calls pass the test of g_initialized before
\* either sets it.
C14_ConstructedOnce ==
    /\ built.env <= 1 /\ built.options <= 1 /\ built.session <= 1
    /\ \A th \in DOMAIN th_pc :
          th_pc[th] = "use" => g_session /\ built = [env |-> 1, options |-> 1, session |-> 1]

\* C15: every Detection emitted by detectDocLayout has a score in [0,1].
\* Violated: the score of a row that passes the filter is copied as it is.
C15_ScoreRange ==
    \A i \in 1..Len(results) : 0 <= results[i].score /\ results[i].score <= Milli

\* the integer-truncated, image-clipped bounding box of a polygon has
\* x2 <= x1 or y2 <= y1
ClippedBoxEmpty(img, points) ==
    LET xs == {points[k].x : k \in 1..Len(points)}
        ys == {points[k].y : k \in 1..Len(points)}
        lo(S) == CHOOSE v \in S : \A w \in S : v <= w
        hi(S) == CHOOSE v \in S : \A w \in S : w <= v
        x1 == (IF lo(xs) < 0 THEN 0 ELSE lo(xs)) \div Sub
        y1 == (IF lo(ys) < 0 THEN 0 ELSE lo(ys)) \div Sub
        x2 == (IF hi(xs) > img.cols * Sub THEN img.cols * Sub ELSE hi(xs)) \div Sub
        y2 == (IF hi(ys) > img.rows * Sub THEN img.rows * Sub ELSE hi(ys)) \div Sub
    IN  x2 <= x1 \/ y2 <= y1

\* C16: CropTextRegion returns an empty crop when the polygon does not have
\* exactly 4 points or when its integer-truncated, image-clipped bounding
\* box has x2 <= x1 or y2 <= y1; RecognizeText skips a polygon whose crop is
\* empty: it pushes no TextLine for it and goes on to process every
\* remaining polygon.
C16_EmptyCropSkipped ==
    /\ \A i \in 1..Len(ocr_regions) :
          LET pts == ocr_boxes[i].points
          IN  (Len(pts) # 4 \/ ClippedBoxEmpty(ocr_image, pts))
                  => ocr_regions[i] = EmptyMat
    /\ \A i \in 1..Len(ocr_events) :
          ocr_regions[i] = EmptyMat
              => /\ ocr_events[i] = "empty_region"
                 /\ \A k \in 1..Len(AcceptedIdx) : AcceptedIdx[k] # i
    /\ Len(ocr_results) = Len(AcceptedIdx)
    /\ (ocr_pc = "done" /\ ocr_boxes # <<>>) => Len(ocr_events) = Len(ocr_boxes)

\* a call of RecognizeText has returned a TextLine for a polygon that
\* followed a polygon with an empty crop
C16_Witness ==
    /\ ocr_pc = "done"
    /\ \E i, j \in 1..Len(ocr_events) :
          /\ i < j
          /\ ocr_regions[i] = EmptyMat
          /\ ocr_events[j] = "accepted"

(***************************************************************************)
(* Further properties of DBPostProcess (checked under SpecDB).             *)
(***************************************************************************)
\* twice the mean y of the top edge of a polygon
TopY2(box) == box.points[1].y + box.points[2].y

\* C17: the polygons returned by DBPostProcess are in reading order: for
\* every pair A before B, if their mean top-edge y differ by more than 10
\* then A's is smaller, and otherwise A's top-left x is not greater than
\* B's.  Violated: no order of three polygons 8 pixels apart in a staircase
\* satisfies it, and the comparator given to std::sort is not a strict weak
\* ordering of them.
C17_ReadingOrder ==
    db_status = "done" =>
        \A i, j \in 1..Len(db_boxes) :
            i < j =>
                LET a == db_boxes[i]
                    b == db_boxes[j]
                    diff == IF TopY2(a) < TopY2(b) THEN TopY2(b) - TopY2(a)
                            ELSE TopY2(a) - TopY2(b)
                IN  IF diff > 2 * 10 * Sub THEN TopY2(a) < TopY2(b)
                    ELSE a.points[1].x <= b.points[1].x

(***************************************************************************)
(* Further properties of CTCDecode (checked under SpecCTC).                *)
(***************************************************************************)
\* C18: CTCDecode called with seq_len = 0 returns the empty string and
\* confidence 0.0 without raising and without reading any element of the
\* tensor buffer.  Violated: the probe of the first timestep (lines
\* 409-415) reads output_data[0 .. vocab_size-1] before the loop tests
\* seq_len.
C18_ZeroLength ==
    (SeqLen = 0 /\ ctc_pc # "start") =>
        /\ ~oob_read
        /\ ctc_pc # "fault"
        /\ ctc_pc = "done" => (result = "" /\ avg_score = 0)

\* the argmax index of the timestep the loop is about to process
NextIdx == ArgMax(Probs(output_data[t + 1], need_softmax))

\* C19: when a timestep's argmax index is non-blank, differs from the
\* previous index and is >= the dictionary size, nothing is emitted for it,
\* its probability is added neither to the running score nor to the
\* emitted count, the previous index becomes that index, and decoding
\* continues with the next timestep.
C19_OutOfRangeSkipped ==
    [][(/\ ctc_pc = "loop"
        /\ t < SeqLen
        /\ t' = t + 1
        /\ NextIdx # 0
        /\ NextIdx # prev_idx
        /\ NextIdx >= Len(dictionary_))
           => /\ result' = result
              /\ total_score' = total_score
              /\ char_count' = char_count
              /\ prev_idx' = NextIdx
              /\ ctc_pc' = "loop"]_vars

\* a decode has finished in which a timestep with an index outside the
\* dictionary was followed by a timestep that emitted
C19_Witness ==
    /\ ctc_pc = "done"
    /\ dictionary_ # <<>>
    /\ \E i, j \in 1..SeqLen :
          /\ i < j
          /\ RuleEmits(RawSeq, i) /\ ~InDict(RawSeq, i)
          /\ RuleEmits(RawSeq, j) /\ InDict(RawSeq, j)
    /\ result # ""

(***************************************************************************)
(* Properties of PreprocessForDetection (checked under SpecPre).           *)
(***************************************************************************)
IsRoundedUp(n, r) == r % DET_LIMIT_SIDE = 0 /\ r >= n /\ r - n < DET_LIMIT_SIDE

\* C20: for every image with width >= 1 and height >= 1, the size before
\* rounding has its longer side <= 960, equals the original size when the
\* longer side is already <= 960 and otherwise keeps the aspect ratio up to
\* the truncation to whole pixels; new_w and new_h are the least multiples
\* of 32 not below it, neither exceeds 960, and the scale factors are
\* new_w / orig_w and new_h / orig_h.
C20_DetectionSize ==
    (pre_pc = "done" /\ pre_image.cols >= 1 /\ pre_image.rows >= 1) =>
        LET orig_w == pre_image.cols
            orig_h == pre_image.rows
            max_side == Max2(orig_h, orig_w)
        IN  /\ Max2(pre_sides.width, pre_sides.height) <= DET_MAX_SIDE
            /\ max_side <= DET_MAX_SIDE =>
                  pre_sides = [width |-> orig_w, height |-> orig_h]
            /\ Abs(pre_sides.width * orig_h - pre_sides.height * orig_w) <= max_side
            /\ IsRoundedUp(pre_sides.width, pre_new.width)
            /\ IsRoundedUp(pre_sides.height, pre_new.height)
            /\ pre_new.width <= DET_MAX_SIDE
            /\ pre_new.height <= DET_MAX_SIDE
            /\ pre_scale = [x |-> [num |-> pre_new.width, den |-> orig_w],
                            y |-> [num |-> pre_new.height, den |-> orig_h]]

\* an image larger than 960 was scaled down and a side that was no multiple
\* of 32 was rounded up
C20_Witness ==
    /\ pre_pc = "done"
    /\ Max2(pre_image.cols, pre_image.rows) > DET_MAX_SIDE
    /\ pre_sides.width < pre_image.cols
    /\ pre_sides.width % DET_LIMIT_SIDE # 0
    /\ pre_new.width > pre_sides.width
    /\ pre_new.height = DET_MAX_SIDE

\* C22: the confidence CTCDecode returns is in [0, 1] for every tensor,
\* whether the first row selects softmax or not.
C22_ConfidenceRange ==
    ctc_pc = "done" => (0 <= avg_score /\ avg_score <= Milli)

(***************************************************************************)
(* Further properties of DBPostProcess (checked under SpecDB).             *)
(***************************************************************************)
\* C27: the comparator of the final sort is a strict weak ordering of the
\* polygons of every call: irreflexive, asymmetric and transitive, with a
\* transitive equivalence, so no three polygons are ordered in a cycle.
C27_StrictWeakOrdering ==
    db_status = "done" =>
        /\ \A i \in 1..Len(db_boxes) : ~BoxLess(db_boxes[i], db_boxes[i])
        /\ StrictWeakOn(db_boxes)

(***************************************************************************)
(* Further properties of PreprocessForDetection (checked under SpecPre).   *)
(***************************************************************************)
\* C28: for every image with width >= 1 and height >= 1 both new_w and
\* new_h are at least 32, and neither scale factor is zero.
C28_PositiveSize ==
    (pre_pc = "done" /\ pre_image.cols >= 1 /\ pre_image.rows >= 1) =>
        /\ pre_new.width >= DET_LIMIT_SIDE
        /\ pre_new.height >= DET_LIMIT_SIDE
        /\ pre_scale.x.num > 0
        /\ pre_scale.y.num > 0

(***************************************************************************)
(* Properties of OcrEngine::Init and Release (checked under SpecEngine).   *)
(***************************************************************************)
Members == <<env_, det_session_options_, rec_session_options_, det_session_,
             rec_session_>>

\* C21: whenever the engine is initialized, the dictionary has the blank
\* token at index 0 and ends with a space token followed by the end token;
\* right after an Init that succeeded on a file of n lines, entries 1..n are
\* the lines in file order, an empty line stored as a space.
C21_DictionaryShape ==
    initialized_ =>
        /\ Len(dictionary_) >= 3
        /\ dictionary_[1] = ""
        /\ dictionary_[Len(dictionary_) - 1] = " "
        /\ dictionary_[Len(dictionary_)] = ""
        /\ (last_call.op = "Init" /\ last_call.outcome = "ok") =>
              \A i \in 1..Len(last_call.dict.lines) :
                  dictionary_[i + 1] = IF last_call.dict.lines[i] = "" THEN " "
                                       ELSE last_call.dict.lines[i]

\* C23: initialized_ implies that the five pointers are non-null, and right
\* after a Release the five pointers are null, the dictionary is empty and
\* initialized_ is false.
C23_InitializedMeansBuilt ==
    /\ initialized_ => \A k \in 1..5 : Members[k] # 0
    /\ last_call.op = "Release" =>
          /\ \A k \in 1..5 : Members[k] = 0
          /\ dictionary_ = <<>>
          /\ ~initialized_

\* an Init that raised while loading a model came before, some objects were
\* made and deleted, and the engine is initialized again
C23_Witness ==
    /\ initialized_
    /\ \E i \in 1..Len(ort_objects) : ort_objects[i].deletes = 1
    /\ Len(ort_objects) \in {8, 9}
    /\ last_call.op = "Init"

\* C24: every object made by Init is deleted at most once, and one that is
\* not deleted is still pointed to by a member: no later Init has
\* overwritten the pointer to it.
C24_NoLeakNoDoubleDelete ==
    \A i \in 1..Len(ort_objects) :
        /\ ort_objects[i].deletes <= 1
        /\ ort_objects[i].deletes = 0 => \E k \in 1..5 : Members[k] = i

EngineQueries == {"DetectText", "RecognizeRegion", "RecognizeText"}
Exports == {"recognizeTextFromPath", "recognizeTextFromBuffer", "detectTextFromPath"}

\* C26: while the engine is not initialized, DetectText and RecognizeText
\* return an empty list and RecognizeRegion the pair ("", 0.0) without
\* running a session, and the three exported functions return the
\* ENGINE_NOT_INITIALIZED record for a loadable image without calling the
\* engine.
C26_NotInitializedGuards ==
    ~initialized_ =>
        /\ last_call.op \in EngineQueries =>
              /\ ~last_call.returned.ran_session
              /\ last_call.returned.ret =
                     IF last_call.op = "RecognizeRegion" THEN "empty_pair"
                     ELSE IF last_call.op = "DetectText" THEN "no_boxes"
                     ELSE "no_lines"
        /\ (last_call.op \in Exports /\ ~last_call.image_empty) =>
              /\ last_call.returned.ret = "ENGINE_NOT_INITIALIZED"
              /\ ~last_call.returned.called_engine
              /\ ~last_call.returned.ran_session

\* DetectText was called on a usable image after an Init that raised at the
\* recognition model: det_session_ is set, initialized_ is not
C26_Witness ==
    /\ ~initialized_
    /\ det_session_ # 0
    /\ last_call.op = "DetectText"
    /\ ~last_call.image_empty
    /\ last_call.returned.ret = "no_boxes"

\* C30: an Init call made while the engine is initialized leaves the
\* environment, the session options, the sessions, the dictionary and the
\* flag as they were, whatever paths it is given.
C30_InitIsIdempotent ==
    [][(initialized_ /\ last_call'.op = "Init" /\ last_call'.n = last_call.n + 1)
          => UNCHANGED <<env_, det_session_options_, rec_session_options_, det_session_,
                         rec_session_, ort_objects, dictionary_, initialized_>>]_vars

\* Init was called on an initialized engine with another detection model
\* and another dictionary than the ones loaded
C30_Witness ==
    /\ initialized_
    /\ last_call.op = "Init"
    /\ last_call.outcome = "already"
    /\ ort_objects[det_session_].path # last_call.det_model_path
    /\ dictionary_ # LoadDictionary(<<>>, last_call.dict)

(***************************************************************************)
(* Properties of Release against a call in flight (checked under           *)
(* SpecRelease).                                                           *)
(***************************************************************************)
\* C25: under every interleaving of Release with a RecognizeText,
\* DetectText or RecognizeRegion call on another thread, the call never
\* uses a session that Release has deleted or a dictionary it has cleared.
C25_NoUseAfterRelease == hazards = {}

(***************************************************************************)
(* Further properties of RecognizeText (checked under SpecOCR).            *)
(***************************************************************************)
\* C29: every TextLine returned has non-empty text and score >=
\* rec_threshold; the TextLines are those of the accepted polygons in the
\* order of the polygons, at most one for each; and of two calls on the same
\* image the results at the higher rec_threshold are a subsequence of the
\* results at the lower one.
C29_FilteredInOrder ==
    ocr_pc = "done" =>
        /\ \A k \in 1..Len(ocr_results) :
              /\ ocr_results[k].text # ""
              /\ ocr_results[k].score >= rec_threshold
        /\ Len(ocr_results) = Len(AcceptedIdx)
        /\ \A k \in 1..Len(ocr_results) :
              ocr_results[k] = TextLineResult(ocr_boxes[AcceptedIdx[k]],
                                              rec_outputs[AcceptedIdx[k]].text,
                                              rec_outputs[AcceptedIdx[k]].score)
        /\ \A k \in 1..(Len(AcceptedIdx) - 1) : AcceptedIdx[k] < AcceptedIdx[k + 1]
        /\ ocr_prev.status = "done" =>
              /\ ocr_prev.rec_threshold <= rec_threshold
                    => IsSubseq(ocr_results, ocr_prev.results)
              /\ rec_threshold <= ocr_prev.rec_threshold
                    => IsSubseq(ocr_prev.results, ocr_results)

\* two polygons were accepted at the lower threshold, the second call at the
\* higher threshold kept only the later one
C29_Witness ==
    /\ ocr_pc = "done"
    /\ ocr_prev.status = "done"
    /\ ocr_prev.rec_threshold < rec_threshold
    /\ Len(ocr_prev.results) = 2
    /\ ocr_results = <<ocr_prev.results[2]>>

====
